---- MODULE Spec2Model ----
(***************************************************************************)
(* Semantic-analysis core of the Llama compiler: the symbol table driven   *)
(* by the Analyzer (compiler/sem.py), the type table and the type          *)
(* validator (compiler/type.py), over the AST nodes of compiler/ast.py.    *)
(*                                                                         *)
(* Three specifications share the module, one per subsystem:               *)
(*   SpecSym  - scopes, per-name cache, the Analyzer's scope operations    *)
(*   SpecTT   - Table.process over groups of type definitions              *)
(*   SpecVal  - Validator.validate over type terms                         *)
(***************************************************************************)
EXTENDS Integers, Sequences, FiniteSets, TLC

VARIABLES
    scopes,             \* symbol table: stack of Scope(entries, visible, nesting)
    cache,              \* symbol table: per-name stack of live bindings
    snaps,              \* history: lookups as they were before each open scope
    symOut,             \* outcome of the last symbol-table operation
    knownTypes,         \* type table: Smartdict type -> list of constructors
    knownConstructors,  \* type table: Smartdict constructor -> type
    ncalls,             \* number of process() calls made so far
    ttOut,              \* outcome of the last process() call
    valT,               \* the type term handed to validate
    valOut,             \* outcome of validate(valT)
    inf,                \* the Inferer: its type_map, constraint containers, log
    nodeTypes,          \* the type slot of each AST node the Inferer is given
    infOut,             \* outcome of the last call of an Inferer method
    events,             \* the steps the last resolve() took, in order
    semOut              \* outcome of the last call of the Analyzer

symVars == <<scopes, cache, snaps, symOut>>
ttVars  == <<knownTypes, knownConstructors, ncalls, ttOut>>
valVars == <<valT, valOut>>
infVars == <<inf, nodeTypes, infOut, events>>
semVars == <<semOut>>
vars    == <<scopes, cache, snaps, symOut, knownTypes, knownConstructors,
             ncalls, ttOut, valT, valOut, inf, nodeTypes, infOut,
             events, semOut>>

-----------------------------------------------------------------------------
(* Bounds *)

\* deepest nesting of simultaneously open scopes
MaxDepth == 3

\* number of process() calls made on one type table
MaxCalls == 2

-----------------------------------------------------------------------------
(* AST name nodes handed to the symbol table.  A node is an object: two    *)
(* nodes with the same name are told apart by their source position, as    *)
(* the GenidExpression("foo") at 1:2 and the Param("foo") at 3:4 of the    *)
(* symbol-table test.                                                      *)

Names == {"foo", "bar"}

Nodes == { [name |-> "foo", pos |-> 1],
           [name |-> "foo", pos |-> 2],
           [name |-> "bar", pos |-> 3] }

\* Python's None where a node is expected
None == [name |-> "", pos |-> 0]

\* no exception
NoErr == [kind |-> "none", node |-> None, prev |-> None]

NodeError(kind, node, prev) == [kind |-> kind, node |-> node, prev |-> prev]

\* done: validate(valT) has returned or raised; err: what it raised
ValOut(done, err) == [done |-> done, err |-> err]

NotValidated == ValOut(FALSE, NoErr)

-----------------------------------------------------------------------------
(* Symbol table (compiler/symbol.py)                                       *)

Scope(entries, visible, nesting) ==
    [entries |-> entries, visible |-> visible, nesting |-> nesting]

SymTable(sc, ch) == [scopes |-> sc, cache |-> ch]

EmptyCache == [n \in Names |-> <<>>]

\* the entry of a scope with the given name, None when there is none
FindEntry(entries, name) ==
    LET idx == {i \in 1..Len(entries) : entries[i].name = name}
    IN  IF idx = {} THEN None ELSE entries[CHOOSE i \in idx : TRUE]

\* open_scope(): push a fresh scope, visible by default
open_scope(tbl) ==
    SymTable(Append(tbl.scopes, Scope(<<>>, TRUE, Len(tbl.scopes) + 1)),
             tbl.cache)

\* drop from the per-name stacks every binding made at the given nesting
PopCache(ch, nesting) ==
    [n \in Names |-> SelectSeq(ch[n], LAMBDA b : b.nesting # nesting)]

\* close_scope(): pop the innermost scope and unbind its entries;
\* closing when no scope is open does nothing
close_scope(tbl) ==
    IF tbl.scopes = <<>>
    THEN tbl
    ELSE SymTable(SubSeq(tbl.scopes, 1, Len(tbl.scopes) - 1),
                  PopCache(tbl.cache, Len(tbl.scopes)))

\* mutant: closing when no scope is open is an error
close_scope_raises_when_empty(tbl) ==
    IF tbl.scopes = <<>> THEN NodeError("IndexError", None, None) ELSE NoErr

\* the exception close_scope() raises: none, with or without an open scope
close_scope_raises(tbl) == NoErr

\* mutant: the current-scope lookup honours the visible flag
lookup_in_current_scope_visible_only(tbl, name) ==
    IF tbl.scopes = <<>> \/ ~tbl.scopes[Len(tbl.scopes)].visible
    THEN None
    ELSE FindEntry(tbl.scopes[Len(tbl.scopes)].entries, name)

\* find_symbol_in_current_scope(name): innermost scope only
lookup_in_current_scope(tbl, name) ==
    IF tbl.scopes = <<>>
    THEN None
    ELSE FindEntry(tbl.scopes[Len(tbl.scopes)].entries, name)

\* walk a per-name stack from its top, skipping bindings of invisible scopes
RECURSIVE LiveWalk(_, _, _)
LiveWalk(stack, sc, i) ==
    IF i = 0 THEN None
    ELSE IF sc[stack[i].nesting].visible THEN stack[i].node
    ELSE LiveWalk(stack, sc, i - 1)

\* mutant: the live lookup answers with the top of the per-name stack,
\* whether or not its scope is visible
lookup_live_def_ignoring_visibility(tbl, name) ==
    IF tbl.cache[name] = <<>> THEN None
    ELSE tbl.cache[name][Len(tbl.cache[name])].node

\* find_live_def(name): innermost binding held by a visible scope
lookup_live_def(tbl, name) ==
    LiveWalk(tbl.cache[name], tbl.scopes, Len(tbl.cache[name]))

\* mutant: a rejected node has replaced the entry it collided with
insert_symbol_rebinding(tbl, node) ==
    LET d    == Len(tbl.scopes)
        prev == lookup_in_current_scope(tbl, node.name)
        rebound == [k \in 1..Len(tbl.scopes[d].entries) |->
                       IF tbl.scopes[d].entries[k] = prev THEN node
                       ELSE tbl.scopes[d].entries[k]]
    IN  IF prev # None
        THEN [tbl |-> SymTable([tbl.scopes EXCEPT ![d].entries = rebound],
                               tbl.cache),
              err |-> NodeError("RedefIdentifier", node, prev)]
        ELSE [tbl |-> SymTable(
                        [tbl.scopes EXCEPT ![d].entries = Append(@, node)],
                        [tbl.cache EXCEPT ![node.name] =
                            Append(@, [node |-> node, nesting |-> d])]),
              err |-> NoErr]

\* insert_symbol(node): bind node.name in the innermost scope, or raise
\* RedefIdentifierError(node, prev) when that scope already binds the name
insert_symbol(tbl, node) ==
    LET d    == Len(tbl.scopes)
        prev == lookup_in_current_scope(tbl, node.name)
    IN  IF prev # None
        THEN [tbl |-> tbl, err |-> NodeError("RedefIdentifier", node, prev)]
        ELSE [tbl |-> SymTable(
                        [tbl.scopes EXCEPT ![d].entries = Append(@, node)],
                        [tbl.cache EXCEPT ![node.name] =
                            Append(@, [node |-> node, nesting |-> d])]),
              err |-> NoErr]

\* scope.visible = b on the innermost scope
set_visible(tbl, b) ==
    SymTable([tbl.scopes EXCEPT ![Len(tbl.scopes)].visible = b], tbl.cache)

-----------------------------------------------------------------------------
(* The Analyzer's scope operations (compiler/sem.py)                       *)

\* mutant: the scope is opened invisible
open_visible_scope_hidden(tbl) == set_visible(open_scope(tbl), FALSE)

\* Analyzer._open_visible_scope
open_visible_scope(tbl) == open_scope(tbl)

\* Analyzer._open_invisible_scope
open_invisible_scope(tbl) == set_visible(open_scope(tbl), FALSE)

\* Analyzer._close_scope
analyzer_close_scope(tbl) == close_scope(tbl)

\* mutant: the SymbolError is caught and dropped
analyzer_insert_symbol_silent(tbl, sym) ==
    [tbl |-> insert_symbol(tbl, sym).tbl, logged |-> NoErr]

\* Analyzer._insert_symbol: a SymbolError is caught and logged
analyzer_insert_symbol(tbl, sym) ==
    LET r == insert_symbol(tbl, sym)
    IN  [tbl |-> r.tbl, logged |-> r.err]

-----------------------------------------------------------------------------
(* State of the symbol-table specification                                 *)

Tbl == SymTable(scopes, cache)

\* what every lookup answers in a table
Snapshot(tbl) ==
    [live |-> [n \in Names |-> lookup_live_def(tbl, n)],
     cur  |-> [n \in Names |-> lookup_in_current_scope(tbl, n)]]

NoSnap == [live |-> [n \in Names |-> None], cur |-> [n \in Names |-> None]]

\* op: the operation; node, err: its argument and the error it logged;
\* snap: the lookups recorded when the scope it closed was opened, the
\* lookups before an insert;
\* pre: the scope stack an insert or a visibility change started from, the
\* scope a close removed
SymOut(op, node, err, snap, pre) ==
    [op |-> op, node |-> node, err |-> err, snap |-> snap, pre |-> pre]

OpenVisibleScope ==
    /\ Len(scopes) < MaxDepth
    /\ LET t == open_visible_scope(Tbl)
       IN  /\ scopes' = t.scopes
           /\ cache' = t.cache
    /\ snaps' = Append(snaps, Snapshot(Tbl))
    /\ symOut' = SymOut("open_visible", None, NoErr, NoSnap, <<>>)
    /\ UNCHANGED <<ttVars, valVars, infVars, semVars>>

OpenInvisibleScope ==
    /\ Len(scopes) < MaxDepth
    /\ LET t == open_invisible_scope(Tbl)
       IN  /\ scopes' = t.scopes
           /\ cache' = t.cache
    /\ snaps' = Append(snaps, Snapshot(Tbl))
    /\ symOut' = SymOut("open_invisible", None, NoErr, NoSnap, <<>>)
    /\ UNCHANGED <<ttVars, valVars, infVars, semVars>>

CloseScope ==
    /\ LET t == IF close_scope_raises(Tbl) = NoErr
                THEN analyzer_close_scope(Tbl) ELSE Tbl
       IN  /\ scopes' = t.scopes
           /\ cache' = t.cache
    /\ snaps' = IF snaps = <<>> THEN snaps ELSE SubSeq(snaps, 1, Len(snaps) - 1)
    /\ symOut' = SymOut("close", None, close_scope_raises(Tbl),
                        IF snaps = <<>> THEN NoSnap ELSE snaps[Len(snaps)],
                        IF scopes = <<>> THEN <<>> ELSE <<scopes[Len(scopes)]>>)
    /\ UNCHANGED <<ttVars, valVars, infVars, semVars>>

InsertSymbol ==
    /\ scopes # <<>>
    /\ \E sym \in Nodes :
         LET r == analyzer_insert_symbol(Tbl, sym)
         IN  /\ scopes' = r.tbl.scopes
             /\ cache' = r.tbl.cache
             /\ symOut' = SymOut("insert", sym, r.logged, Snapshot(Tbl),
                                 scopes)
    /\ UNCHANGED <<snaps, ttVars, valVars, infVars, semVars>>

SetVisible ==
    /\ scopes # <<>>
    /\ \E b \in BOOLEAN :
         LET t == set_visible(Tbl, b)
         IN  /\ scopes' = t.scopes
             /\ cache' = t.cache
             /\ symOut' = SymOut(IF b THEN "set_visible" ELSE "set_invisible",
                                 None, NoErr, NoSnap, scopes)
    /\ UNCHANGED <<snaps, ttVars, valVars, infVars, semVars>>

-----------------------------------------------------------------------------
(* What the scope stack alone says, independently of the per-name cache    *)

HoldsName(scope, name) ==
    \E i \in 1..Len(scope.entries) : scope.entries[i].name = name

EntryOf(scope, name) ==
    scope.entries[CHOOSE i \in 1..Len(scope.entries) :
                        scope.entries[i].name = name]

\* the entry for name of the innermost visible scope that holds name
InnermostVisibleEntry(sc, name) ==
    LET idx == {i \in 1..Len(sc) : sc[i].visible /\ HoldsName(sc[i], name)}
    IN  IF idx = {} THEN None
        ELSE EntryOf(sc[CHOOSE i \in idx : \A j \in idx : j <= i], name)

\* C1: insert_symbol(def) fails with RedefIdentifier(node = def, prev = the
\* existing entry) exactly when the innermost open scope already holds an
\* entry with the same name; entries of outer scopes never make it fail.
C1_RedefOnlyInCurrentScope ==
    symOut.op = "insert" =>
        LET inner == symOut.pre[Len(symOut.pre)]
            name  == symOut.node.name
        IN  /\ (symOut.err # NoErr) <=> HoldsName(inner, name)
            /\ HoldsName(inner, name) =>
                  symOut.err = NodeError("RedefIdentifier", symOut.node,
                                         EntryOf(inner, name))

\* C1 witness: an insert was rejected although an outer scope holds another
\* entry of that name, and prev is the innermost scope's entry
C1_Witness ==
    /\ symOut.op = "insert"
    /\ symOut.err.kind = "RedefIdentifier"
    /\ symOut.err.prev # symOut.node
    /\ \E i \in 1..(Len(symOut.pre) - 1) :
          /\ HoldsName(symOut.pre[i], symOut.node.name)
          /\ EntryOf(symOut.pre[i], symOut.node.name) # symOut.err.prev

\* C1 witness of the accepted case: an insert shadowing an outer entry
C1_ShadowAccepted ==
    /\ symOut.op = "insert"
    /\ symOut.err = NoErr
    /\ \E i \in 1..(Len(symOut.pre) - 1) :
          HoldsName(symOut.pre[i], symOut.node.name)

\* C2: lookup_live_def(name) returns the entry for name held by the
\* innermost scope marked visible, skipping invisible scopes, and None when
\* no visible scope holds the name.
C2_LiveDefIsInnermostVisible ==
    \A n \in Names : lookup_live_def(Tbl, n) = InnermostVisibleEntry(scopes, n)

\* C2 witness: the innermost scope holding foo is invisible and the lookup
\* answers with the entry of a visible scope further out
C2_Witness ==
    /\ Len(scopes) >= 2
    /\ ~scopes[Len(scopes)].visible
    /\ HoldsName(scopes[Len(scopes)], "foo")
    /\ lookup_live_def(Tbl, "foo") # None
    /\ lookup_live_def(Tbl, "foo") # EntryOf(scopes[Len(scopes)], "foo")

\* C3: marking the innermost scope invisible changes only lookup_live_def:
\* lookup_in_current_scope still returns the innermost scope's entry, and an
\* insert of a same-named def into the invisible scope still fails with
\* RedefIdentifier.
C3_InvisibleScopeStillBlocks ==
    /\ (scopes # <<>> /\ ~scopes[Len(scopes)].visible) =>
          \A n \in Names :
             lookup_in_current_scope(Tbl, n) =
                IF HoldsName(scopes[Len(scopes)], n)
                THEN EntryOf(scopes[Len(scopes)], n) ELSE None
    /\ (/\ symOut.op = "insert"
        /\ ~symOut.pre[Len(symOut.pre)].visible
        /\ HoldsName(symOut.pre[Len(symOut.pre)], symOut.node.name)) =>
          /\ symOut.err.kind = "RedefIdentifier"
          /\ symOut.err.node = symOut.node
          /\ symOut.err.prev =
                EntryOf(symOut.pre[Len(symOut.pre)], symOut.node.name)
          /\ scopes = symOut.pre

\* C3 witness: an insert into an invisible innermost scope was rejected
\* while the live definition of that name is an outer one
C3_Witness ==
    /\ symOut.op = "insert"
    /\ symOut.err.kind = "RedefIdentifier"
    /\ ~scopes[Len(scopes)].visible
    /\ lookup_in_current_scope(Tbl, symOut.node.name) = symOut.err.prev
    /\ lookup_live_def(Tbl, symOut.node.name) # symOut.err.prev

\* C4: scopes are a LIFO stack: after open_scope, inserts and the matching
\* close_scope every lookup_live_def and lookup_in_current_scope answers
\* what it answered before the open_scope; a newly opened scope is visible.
C4_ScopesAreLifo ==
    /\ symOut.op = "close" => Snapshot(Tbl) = symOut.snap
    /\ symOut.op = "open_visible" =>
          /\ scopes[Len(scopes)].visible
          /\ scopes[Len(scopes)].entries = <<>>
          /\ \A n \in Names : lookup_in_current_scope(Tbl, n) = None

\* C4 witness: the closed scope was visible and shadowed a live binding,
\* which is live again after the close
C4_Witness ==
    /\ symOut.op = "close"
    /\ symOut.pre # <<>>
    /\ symOut.pre[1].visible
    /\ HoldsName(symOut.pre[1], "foo")
    /\ symOut.snap.live["foo"] # None
    /\ symOut.snap.live["foo"] # EntryOf(symOut.pre[1], "foo")
    /\ lookup_live_def(Tbl, "foo") = symOut.snap.live["foo"]

\* an insert_symbol call was rejected
InsertRejected == symOut.op = "insert" /\ symOut.err # NoErr

\* C37 (as claimed): an insert_symbol call that fails with RedefIdentifier
\* leaves the table unchanged, and the previously inserted entry is still
\* what lookup_in_current_scope and lookup_live_def return for the name.
C37_RejectedInsertKeepsPrevLive ==
    InsertRejected =>
        /\ scopes = symOut.pre
        /\ lookup_in_current_scope(Tbl, symOut.node.name) = symOut.err.prev
        /\ lookup_live_def(Tbl, symOut.node.name) = symOut.err.prev

\* C37 (amended): an insert_symbol call that fails with RedefIdentifier
\* leaves the table unchanged: no scope or entry is altered, both lookups
\* answer for every name what they answered before the call,
\* lookup_in_current_scope returns the previously inserted entry for the
\* name, and lookup_live_def returns it when the innermost scope is
\* visible.
C37_RejectedInsertLeavesTableUnchanged ==
    InsertRejected =>
        /\ scopes = symOut.pre
        /\ Snapshot(Tbl) = symOut.snap
        /\ lookup_in_current_scope(Tbl, symOut.node.name) = symOut.err.prev
        /\ scopes[Len(scopes)].visible =>
              lookup_live_def(Tbl, symOut.node.name) = symOut.err.prev

\* C37 witness: an insert was rejected in a visible scope that shadows an
\* outer entry of the name, and the lookups still answer with the inner one
C37_Witness ==
    /\ InsertRejected
    /\ Len(scopes) >= 2
    /\ scopes[Len(scopes)].visible
    /\ HoldsName(scopes[1], symOut.node.name)
    /\ lookup_live_def(Tbl, symOut.node.name) = symOut.err.prev
    /\ symOut.err.prev # EntryOf(scopes[1], symOut.node.name)
    /\ Snapshot(Tbl) = symOut.snap

\* C36: close_scope can be called on a table whose opened scopes have all
\* been closed: the call raises nothing and leaves the table as a fresh
\* one, without a scope and without a binding.
C36_CloseOnEmptyTableIsHarmless ==
    (symOut.op = "close" /\ symOut.pre = <<>>) =>
        /\ symOut.err = NoErr
        /\ scopes = <<>>
        /\ \A n \in Names :
              /\ lookup_live_def(Tbl, n) = None
              /\ lookup_in_current_scope(Tbl, n) = None

\* C36 witness: a close_scope call found no scope open and returned
C36_Witness ==
    /\ symOut.op = "close"
    /\ symOut.pre = <<>>
    /\ symOut.err = NoErr
    /\ scopes = <<>>

-----------------------------------------------------------------------------
(* Type nodes and constructors (compiler/ast.py)                           *)

BuiltinNames == {"bool", "char", "float", "int", "unit"}

\* ast.builtin_types_map: the class of each builtin type name
builtin_types_map ==
    [n \in BuiltinNames |->
        CASE n = "bool"  -> "Bool"
          [] n = "char"  -> "Char"
          [] n = "float" -> "Float"
          [] n = "int"   -> "Int"
          [] n = "unit"  -> "Unit"]

BuiltinClasses == {builtin_types_map[n] : n \in BuiltinNames}

\* A node is an object.  Where a node was parsed tells objects of equal
\* content apart: <<c, i, j, k>> is argument k of constructor j of
\* definition i of the group handed to the c-th process() call (0 where a
\* level does not apply).  The builtin keys the table creates itself carry
\* no position.
At(c, i, j, k) == <<c, i, j, k>>
NoPos          == <<0, 0, 0, 0>>

\* ast.Builtin subclasses: Bool(), Char(), Float(), Int(), Unit()
Builtin(name, pos) ==
    [cls |-> builtin_types_map[name], name |-> name, pos |-> pos]

\* ast.User(name)
User(name, pos) == [cls |-> "User", name |-> name, pos |-> pos]

\* the type node the parser builds for a type name
TypeNode(name, pos) ==
    IF name \in BuiltinNames THEN Builtin(name, pos) ELSE User(name, pos)

\* ast.Constructor(name, arguments)
Constructor(name, arguments, pos) ==
    [name |-> name, arguments |-> arguments, pos |-> pos]

\* ast.TDef(type, arguments)
TDef(type, arguments) == [type |-> type, arguments |-> arguments]

IsConstructor(n) == "arguments" \in DOMAIN n

\* What Node.__eq__ compares: the class and every attribute except the
\* position (lineno, lexpos); lists of nodes compare element by element.
TypeKey(t) == [cls |-> t.cls, name |-> t.name]

ConstructorKey(c) ==
    [name |-> c.name,
     arguments |-> [k \in 1..Len(c.arguments) |-> TypeKey(c.arguments[k])]]

NodeKey(n) == IF IsConstructor(n) THEN ConstructorKey(n) ELSE TypeKey(n)

\* Node.__eq__
node_eq(a, b) == NodeKey(a) = NodeKey(b)

\* isinstance(t, ast.Builtin)
IsBuiltin(t) == t.cls \in BuiltinClasses

-----------------------------------------------------------------------------
(* Smartdict (compiler/smartdict.py): a dictionary that also hands out the *)
(* key object it stored.  Keys are looked up by equality.                  *)

sd_contains(d, k) == NodeKey(k) \in DOMAIN d

sd_getKey(d, k) == IF sd_contains(d, k) THEN d[NodeKey(k)].key ELSE None

sd_get(d, k) == d[NodeKey(k)].val

sd_set(d, k, v) ==
    IF sd_contains(d, k)
    THEN [d EXCEPT ![NodeKey(k)].val = v]
    ELSE d @@ (NodeKey(k) :> [key |-> k, val |-> v])

sd_keys(d) == {d[x].key : x \in DOMAIN d}

\* the value None of a builtin's entry, kept apart from the empty list
NoneList == <<None>>

-----------------------------------------------------------------------------
(* Type table (compiler/type.py, class Table)                              *)

TypeTable(kt, kc) == [knownTypes |-> kt, knownConstructors |-> kc]

Raised(tt, err) ==
    [knownTypes |-> tt.knownTypes, knownConstructors |-> tt.knownConstructors,
     err |-> err]

\* Table.__init__: builtin types always available, no constructors
InitKnownTypes ==
    [x \in {TypeKey(Builtin(n, NoPos)) : n \in BuiltinNames} |->
        [key |-> Builtin(CHOOSE n \in BuiltinNames :
                            builtin_types_map[n] = x.cls, NoPos),
         val |-> NoneList]]

InitKnownConstructors == <<>>

\* mutant: an existing builtin is reported like an existing user type
insert_new_type_no_builtin_case(tt, newType) ==
    LET existingType == sd_getKey(tt.knownTypes, newType)
    IN  IF existingType = None
        THEN Raised(TypeTable(sd_set(tt.knownTypes, newType, <<>>),
                              tt.knownConstructors), NoErr)
        ELSE Raised(tt, NodeError("RedefUserType", newType, existingType))

\* mutant: a redefined user type silently replaces the existing one
insert_new_type_overwriting(tt, newType) ==
    LET existingType == sd_getKey(tt.knownTypes, newType)
    IN  IF existingType = None \/ ~IsBuiltin(existingType)
        THEN Raised(TypeTable(sd_set(tt.knownTypes, newType, <<>>),
                              tt.knownConstructors), NoErr)
        ELSE Raised(tt, NodeError("RedefBuiltinType", newType, None))

\* Table._insert_new_type
insert_new_type(tt, newType) ==
    LET existingType == sd_getKey(tt.knownTypes, newType)
    IN  IF existingType = None
        THEN Raised(TypeTable(sd_set(tt.knownTypes, newType, <<>>),
                              tt.knownConstructors), NoErr)
        ELSE IF IsBuiltin(existingType)
        THEN Raised(tt, NodeError("RedefBuiltinType", newType, None))
        ELSE Raised(tt, NodeError("RedefUserType", newType, existingType))

\* Table._insert_new_constructor: the constructor is entered in both
\* dictionaries, then its argument types are checked in order
insert_new_constructor(tt, newType, constructor) ==
    LET existingConstructor == sd_getKey(tt.knownConstructors, constructor)
    IN  IF existingConstructor = None
        THEN LET kt == sd_set(tt.knownTypes, newType,
                              Append(sd_get(tt.knownTypes, newType),
                                     constructor))
                 kc == sd_set(tt.knownConstructors, constructor, newType)
                 undef == {k \in 1..Len(constructor.arguments) :
                             ~sd_contains(kt, constructor.arguments[k])}
             IN  Raised(TypeTable(kt, kc),
                        IF undef = {} THEN NoErr
                        ELSE NodeError("UndefType",
                               constructor.arguments[
                                  CHOOSE k \in undef : \A m \in undef : k <= m],
                               None))
        ELSE Raised(tt, NodeError("RedefConstructor", constructor,
                                  existingConstructor))

\* first loop of process: for tdef in typeDefList: _insert_new_type(tdef.type)
RECURSIVE insert_types(_, _, _)
insert_types(tt, typeDefList, i) ==
    IF i > Len(typeDefList) THEN Raised(tt, NoErr)
    ELSE LET r == insert_new_type(tt, typeDefList[i].type)
         IN  IF r.err # NoErr THEN r
             ELSE insert_types(r, typeDefList, i + 1)

\* second loop of process: for tdef in typeDefList: for constructor in tdef
RECURSIVE insert_constructors(_, _, _, _)
insert_constructors(tt, typeDefList, i, j) ==
    IF i > Len(typeDefList) THEN Raised(tt, NoErr)
    ELSE IF j > Len(typeDefList[i].arguments)
    THEN insert_constructors(tt, typeDefList, i + 1, 1)
    ELSE LET r == insert_new_constructor(tt, typeDefList[i].type,
                                         typeDefList[i].arguments[j])
         IN  IF r.err # NoErr THEN r
             ELSE insert_constructors(r, typeDefList, i, j + 1)

\* mutant: each definition's constructors are entered right after its type
RECURSIVE process_one_pass(_, _, _)
process_one_pass(tt, typeDefList, i) ==
    IF i > Len(typeDefList) THEN Raised(tt, NoErr)
    ELSE LET r == insert_new_type(tt, typeDefList[i].type)
         IN  IF r.err # NoErr THEN r
             ELSE LET q == insert_constructors(r, <<typeDefList[i]>>, 1, 1)
                  IN  IF q.err # NoErr THEN q
                      ELSE process_one_pass(q, typeDefList, i + 1)

process_interleaved(tt, typeDefList) == process_one_pass(tt, typeDefList, 1)

\* Table.process
process(tt, typeDefList) ==
    LET r == insert_types(tt, typeDefList, 1)
    IN  IF r.err # NoErr THEN r
        ELSE insert_constructors(r, typeDefList, 1, 1)

-----------------------------------------------------------------------------
(* Groups of type definitions handed to process()                          *)

UserNames == {"a", "b"}

\* names a definition may declare
DeclNames == UserNames \cup {"int"}

\* constructors as written: a name and the names of its argument types
ConstructorSources ==
    { [name |-> "C", args |-> <<>>],
      [name |-> "C", args |-> <<"b">>],
      [name |-> "D", args |-> <<"int", "a">>] }

\* type definitions as written: "type a = C | D of a"
OneConstructorDefs ==
    { [name |-> n, cons |-> <<c>>] : n \in DeclNames, c \in ConstructorSources }

TwoConstructorDefs ==
    { [name |-> n, cons |-> <<c, d>>] :
        n \in UserNames, c \in ConstructorSources, d \in ConstructorSources }

\* definitions written with an argument type
ArgumentDefs == {t \in OneConstructorDefs : t.cons[1].args # <<>>}

GroupSources ==
    { <<t>> : t \in OneConstructorDefs \cup TwoConstructorDefs }
    \cup { <<t, u>> : t \in ArgumentDefs, u \in ArgumentDefs }

\* the AST of the group given to the c-th call, every node at its own place
ParseConstructor(src, c, i, j) ==
    Constructor(src.name,
                [k \in 1..Len(src.args) |-> TypeNode(src.args[k], At(c, i, j, k))],
                At(c, i, j, 0))

ParseGroup(g, c) ==
    [i \in 1..Len(g) |->
        TDef(TypeNode(g[i].name, At(c, i, 0, 0)),
             [j \in 1..Len(g[i].cons) |->
                ParseConstructor(g[i].cons[j], c, i, j)])]

\* err: the exception the call raised, logged by the Analyzer; group: the
\* group it was given; pre: the table the call started from
TTOut(err, group, pre) == [err |-> err, group |-> group, pre |-> pre]

\* Analyzer.analyze_typedef: process the group, log what it raises
Process ==
    /\ ncalls < MaxCalls
    /\ \E src \in GroupSources :
         LET g   == ParseGroup(src, ncalls + 1)
             pre == TypeTable(knownTypes, knownConstructors)
             r   == process(pre, g)
         IN  /\ knownTypes' = r.knownTypes
             /\ knownConstructors' = r.knownConstructors
             /\ ttOut' = TTOut(r.err, g, pre)
    /\ ncalls' = ncalls + 1
    /\ UNCHANGED <<symVars, valVars, infVars, semVars>>

-----------------------------------------------------------------------------
(* What a process() call was given and what the table held before it       *)

Called == ttOut.group # <<>>

GroupIdx == 1..Len(ttOut.group)

DeclName(i) == ttOut.group[i].type.name

\* names of the user types a table holds
RegisteredUserNames(tt) ==
    {tt.knownTypes[x].key.name :
        x \in {y \in DOMAIN tt.knownTypes : tt.knownTypes[y].key.cls = "User"}}

\* names of the constructors a table holds
RegisteredConstructorNames(tt) ==
    {tt.knownConstructors[x].key.name : x \in DOMAIN tt.knownConstructors}

DeclaresBuiltin(i) == DeclName(i) \in BuiltinNames

\* definition i declares a user type registered before the call or declared
\* earlier in the group
DeclaresDuplicate(i) ==
    /\ ~DeclaresBuiltin(i)
    /\ \/ DeclName(i) \in RegisteredUserNames(ttOut.pre)
       \/ \E j \in 1..(i - 1) : DeclName(j) = DeclName(i)

\* the first registered declaration of the name definition i declares
FirstDeclaration(i) ==
    IF DeclName(i) \in RegisteredUserNames(ttOut.pre)
    THEN CHOOSE t \in sd_keys(ttOut.pre.knownTypes) :
            t.cls = "User" /\ t.name = DeclName(i)
    ELSE ttOut.group[CHOOSE j \in GroupIdx :
                        /\ DeclName(j) = DeclName(i)
                        /\ \A m \in 1..(j - 1) : DeclName(m) # DeclName(i)].type

First(S) == CHOOSE i \in S : \A j \in S : i <= j

\* the constructor nodes of the group, with the type each belongs to
GroupConstructors ==
    {<<ttOut.group[i].type, ttOut.group[i].arguments[j]>> :
        <<i, j>> \in {p \in GroupIdx \X (1..2) :
                        p[2] <= Len(ttOut.group[p[1]].arguments)}}

\* C5 (as claimed): process fails with RedefBuiltin, carrying the declared
\* type node, whenever a declared type name is a builtin name, and then no
\* constructor of the group is registered.
C5_RedefBuiltinWhenever ==
    (Called /\ \E i \in GroupIdx : DeclaresBuiltin(i)) =>
        /\ ttOut.err.kind = "RedefBuiltinType"
        /\ \E i \in GroupIdx :
              DeclaresBuiltin(i) /\ ttOut.err.node = ttOut.group[i].type
        /\ knownConstructors = ttOut.pre.knownConstructors

\* C5 (amended): whenever a declared type name is a builtin name, process
\* fails and registers no constructor of the group; it fails with
\* RedefBuiltin carrying the first builtin-named declared type node, unless
\* a declaration earlier in the group duplicates a user type, and then it
\* fails with RedefUserType for that declaration.
C5_RedefBuiltinUnlessEarlierDuplicate ==
    (Called /\ \E i \in GroupIdx : DeclaresBuiltin(i)) =>
        LET b == First({i \in GroupIdx : DeclaresBuiltin(i)})
            dups == {j \in 1..(b - 1) : DeclaresDuplicate(j)}
        IN  /\ knownConstructors = ttOut.pre.knownConstructors
            /\ dups = {} =>
                  ttOut.err = NodeError("RedefBuiltinType",
                                        ttOut.group[b].type, None)
            /\ dups # {} =>
                  /\ ttOut.err.kind = "RedefUserType"
                  /\ ttOut.err.node = ttOut.group[First(dups)].type

\* C5 witness: the second definition of a group declared int; the first one
\* was registered, the call raised RedefBuiltin and no constructor came in
C5_Witness ==
    /\ Called
    /\ Len(ttOut.group) = 2
    /\ DeclaresBuiltin(2)
    /\ ttOut.err.kind = "RedefBuiltinType"
    /\ ttOut.err.node = ttOut.group[2].type
    /\ sd_getKey(knownTypes, ttOut.group[1].type) = ttOut.group[1].type
    /\ knownConstructors = ttOut.pre.knownConstructors

\* C6 (as claimed): process fails with RedefUserType(node, prev) whenever a
\* declared type name equals a user type registered by an earlier call or
\* earlier in the same group; node is the new declaration, prev the first
\* registered declaration, a different node.
C6_RedefUserTypeWhenever ==
    (Called /\ \E i \in GroupIdx : DeclaresDuplicate(i)) =>
        \E i \in GroupIdx :
            /\ DeclaresDuplicate(i)
            /\ ttOut.err = NodeError("RedefUserType", ttOut.group[i].type,
                                     FirstDeclaration(i))
            /\ ttOut.err.prev.pos # ttOut.err.node.pos

\* C6 (amended): whenever a declared type name equals a user type
\* registered by an earlier call or earlier in the same group, process
\* fails; it fails with RedefUserType(node, prev), node the first such
\* declaration and prev the first registered declaration of that name, a
\* different node, unless a declaration earlier in the group names a
\* builtin type, and then it fails with RedefBuiltin for that declaration.
C6_RedefUserTypeUnlessEarlierBuiltin ==
    (Called /\ \E i \in GroupIdx : DeclaresDuplicate(i)) =>
        LET d == First({i \in GroupIdx : DeclaresDuplicate(i)})
            blt == {j \in 1..(d - 1) : DeclaresBuiltin(j)}
        IN  /\ blt = {} =>
                  /\ ttOut.err = NodeError("RedefUserType",
                                           ttOut.group[d].type,
                                           FirstDeclaration(d))
                  /\ ttOut.err.prev.pos # ttOut.err.node.pos
                  /\ sd_getKey(knownTypes, ttOut.group[d].type) =
                        FirstDeclaration(d)
            /\ blt # {} =>
                  ttOut.err = NodeError("RedefBuiltinType",
                                        ttOut.group[First(blt)].type, None)

\* C6 witness: a call redeclared a user type an earlier call registered
C6_Witness ==
    /\ Called
    /\ ttOut.err.kind = "RedefUserType"
    /\ ttOut.err.node.name = ttOut.err.prev.name
    /\ ttOut.err.prev.pos[1] < ttOut.err.node.pos[1]
    /\ ttOut.err.prev \in sd_keys(knownTypes)

\* C7 (as claimed): after any sequence of process calls every constructor
\* name is registered at most once across all user types: a constructor
\* whose name is already in knownConstructors is rejected with
\* RedefConstructor and the first registration is kept.
C7_ConstructorNamesUnique ==
    \A x, y \in DOMAIN knownConstructors :
        knownConstructors[x].key.name = knownConstructors[y].key.name => x = y

\* C8: a group whose declared names and constructor names are new and
\* distinct, and whose constructors take builtin types, registered types
\* or types declared anywhere in the group (later ones and the type itself
\* included), is processed without error and all of it is registered.
WellFormedGroup ==
    /\ \A i \in GroupIdx :
          ~DeclaresBuiltin(i) /\ ~DeclaresDuplicate(i)
    /\ \A p, q \in GroupConstructors :
          /\ p[2].name \notin RegisteredConstructorNames(ttOut.pre)
          /\ p[2].name = q[2].name => p = q
    /\ \A p \in GroupConstructors :
          \A k \in 1..Len(p[2].arguments) :
             p[2].arguments[k].name \in
                BuiltinNames \cup RegisteredUserNames(ttOut.pre)
                             \cup {DeclName(i) : i \in GroupIdx}

C8_MutualRecursionAccepted ==
    (Called /\ WellFormedGroup) =>
        /\ ttOut.err = NoErr
        /\ \A i \in GroupIdx :
              /\ sd_getKey(knownTypes, ttOut.group[i].type) = ttOut.group[i].type
              /\ sd_get(knownTypes, ttOut.group[i].type) =
                    ttOut.group[i].arguments
        /\ \A p \in GroupConstructors :
              /\ sd_getKey(knownConstructors, p[2]) = p[2]
              /\ sd_get(knownConstructors, p[2]) = p[1]

\* C8 witness: two definitions, each with a constructor taking the other's
\* type, were processed without error
C8_Witness ==
    /\ Called
    /\ WellFormedGroup
    /\ Len(ttOut.group) = 2
    /\ DeclName(1) # DeclName(2)
    /\ \E k \in 1..Len(ttOut.group[1].arguments[1].arguments) :
          ttOut.group[1].arguments[1].arguments[k].name = DeclName(2)
    /\ \E k \in 1..Len(ttOut.group[2].arguments[1].arguments) :
          ttOut.group[2].arguments[1].arguments[k].name = DeclName(1)
    /\ ttOut.err = NoErr
    /\ DOMAIN knownConstructors # DOMAIN ttOut.pre.knownConstructors

\* C9 (as claimed): every constructor in knownConstructors has all its
\* argument types in knownTypes: a constructor with an unknown argument
\* type is rejected with UndefType and is not registered.
C9_RegisteredConstructorsHaveKnownArguments ==
    \A c \in sd_keys(knownConstructors) :
        \A k \in 1..Len(c.arguments) :
            TypeKey(c.arguments[k]) \in DOMAIN knownTypes

\* C40 (as claimed): a process(typedefs) call that raises leaves knownTypes
\* and knownConstructors exactly as they were before the call: no type name
\* and no constructor of the rejected group remains registered.
C40_RejectedGroupLeavesNoTrace ==
    (Called /\ ttOut.err # NoErr) =>
        /\ knownTypes = ttOut.pre.knownTypes
        /\ knownConstructors = ttOut.pre.knownConstructors

InitTT ==
    /\ knownTypes = InitKnownTypes
    /\ knownConstructors = InitKnownConstructors
    /\ ncalls = 0
    /\ ttOut = TTOut(NoErr, <<>>, TypeTable(InitKnownTypes, InitKnownConstructors))
    /\ scopes = <<>>
    /\ cache = EmptyCache
    /\ snaps = <<>>
    /\ symOut = SymOut("init", None, NoErr, NoSnap, <<>>)
    /\ inf = <<>>
    /\ nodeTypes = <<>>
    /\ infOut = <<>>
    /\ events = <<>>
    /\ semOut = <<>>
    /\ valT = None
    /\ valOut = NotValidated

NextTT == Process

SpecTT == InitTT /\ [][NextTT]_vars

-----------------------------------------------------------------------------
(* Type validator (compiler/type.py, class Validator)                      *)

\* largest number of Ref, Array and Function nodes in a validated term
MaxTypeSize == 3

\* ast.Ref(type)
Ref(type) == [cls |-> "Ref", type |-> type]

\* ast.Array(type, dimensions)
Array(type, dimensions) ==
    [cls |-> "Array", type |-> type, dimensions |-> dimensions]

\* ast.Function(fromType, toType)
Function(fromType, toType) ==
    [cls |-> "Function", fromType |-> fromType, toType |-> toType]

\* "int" and "foo", the latter a user type
LeafTypes == {Builtin("int", NoPos), User("foo", NoPos)}

\* "array of T" and "array [*, *] of T"
Dimensions == {1, 2}

\* the terms with one more Ref, Array or Function node than the largest of
\* bySize, a sequence holding the terms of 0, 1, ... such nodes
LargerTypes(bySize) ==
    LET n == Len(bySize)
    IN  {Ref(t) : t \in bySize[n]}
        \cup {Array(t, d) : t \in bySize[n], d \in Dimensions}
        \cup UNION {{Function(a, b) : a \in bySize[i], b \in bySize[n + 1 - i]} :
                       i \in 1..n}

RECURSIVE TypesBySize(_)
TypesBySize(bySize) ==
    IF Len(bySize) > MaxTypeSize THEN bySize
    ELSE TypesBySize(Append(bySize, LargerTypes(bySize)))

\* the type terms handed to validate
TypeTerms ==
    LET bySize == TypesBySize(<<LeafTypes>>)
    IN  UNION {bySize[i] : i \in 1..Len(bySize)}

\* Validator.is_array
is_array(t) == t.cls = "Array"

RECURSIVE validate(_)

\* Validator._validate_array
validate_array(t) ==
    LET basetype == t.type
    IN  IF is_array(basetype)
        THEN NodeError("ArrayofArray", t, None)
        ELSE validate(basetype)

\* Validator._validate_builtin
validate_builtin(t) == NoErr

\* mutant: an array is rejected as parameter type too
validate_function_no_array_parameter(t) ==
    LET t1 == t.fromType
        t2 == t.toType
    IN  IF is_array(t2) \/ is_array(t1)
        THEN NodeError("ArrayReturn", t, None)
        ELSE LET e1 == validate(t1)
             IN  IF e1 # NoErr THEN e1 ELSE validate(t2)

\* Validator._validate_function
validate_function(t) ==
    LET t1 == t.fromType
        t2 == t.toType
    IN  IF is_array(t2)
        THEN NodeError("ArrayReturn", t, None)
        ELSE LET e1 == validate(t1)
             IN  IF e1 # NoErr THEN e1 ELSE validate(t2)

\* Validator._validate_ref
validate_ref(t) ==
    LET basetype == t.type
    IN  IF is_array(basetype)
        THEN NodeError("RefofArray", t, None)
        ELSE validate(basetype)

\* Validator._validate_user
validate_user(t) == NoErr

\* Validator.validate: dispatch on the class of the node
validate(t) ==
    CASE t.cls \in BuiltinClasses -> validate_builtin(t)
      [] t.cls = "Array"          -> validate_array(t)
      [] t.cls = "Function"       -> validate_function(t)
      [] t.cls = "Ref"            -> validate_ref(t)
      [] t.cls = "User"           -> validate_user(t)

\* a call validate(valT)
Validate ==
    /\ ~valOut.done
    /\ valOut' = ValOut(TRUE, validate(valT))
    /\ UNCHANGED <<valT, symVars, ttVars, infVars, semVars>>

-----------------------------------------------------------------------------
(* Which terms validate accepts                                            *)

\* t and every type term inside it
RECURSIVE Subterms(_)
Subterms(t) ==
    {t} \cup
    CASE t.cls \in {"Ref", "Array"} -> Subterms(t.type)
      [] t.cls = "Function" -> Subterms(t.fromType) \cup Subterms(t.toType)
      [] OTHER -> {}

ArrayOfArray(s) == s.cls = "Array" /\ s.type.cls = "Array"

ArrayReturn(s) == s.cls = "Function" /\ s.toType.cls = "Array"

RefOfArray(s) == s.cls = "Ref" /\ s.type.cls = "Array"

ArrayParameter(s) == s.cls = "Function" /\ s.fromType.cls = "Array"

\* C10: validate(t) succeeds if and only if no Array inside t has an Array
\* as element type, no Function inside t has an Array as return type and no
\* Ref inside t has an Array as content type; an Array as the parameter
\* type of a Function does not make it fail.  When it fails, it reports a
\* node of t that breaks the rule named by the error.
C10_ValidIffNoArrayElementReturnContent ==
    valOut.done =>
        /\ valOut.err = NoErr <=>
              \A s \in Subterms(valT) :
                  ~ArrayOfArray(s) /\ ~ArrayReturn(s) /\ ~RefOfArray(s)
        /\ valOut.err # NoErr =>
              /\ valOut.err.node \in Subterms(valT)
              /\ valOut.err.kind = "ArrayofArray" => ArrayOfArray(valOut.err.node)
              /\ valOut.err.kind = "ArrayReturn" => ArrayReturn(valOut.err.node)
              /\ valOut.err.kind = "RefofArray" => RefOfArray(valOut.err.node)
              /\ valOut.err.kind \in {"ArrayofArray", "ArrayReturn", "RefofArray"}

\* C10 witness: a term with a function taking an array, itself below a Ref,
\* was validated without error
C10_Witness ==
    /\ valOut.done
    /\ valOut.err = NoErr
    /\ valT.cls = "Ref"
    /\ \E s \in Subterms(valT) : ArrayParameter(s)

InitVal ==
    /\ valT \in TypeTerms
    /\ valOut = NotValidated
    /\ scopes = <<>>
    /\ cache = EmptyCache
    /\ snaps = <<>>
    /\ symOut = SymOut("init", None, NoErr, NoSnap, <<>>)
    /\ inf = <<>>
    /\ nodeTypes = <<>>
    /\ infOut = <<>>
    /\ events = <<>>
    /\ semOut = <<>>
    /\ knownTypes = <<>>
    /\ knownConstructors = <<>>
    /\ ncalls = 0
    /\ ttOut = <<>>

NextVal == Validate

SpecVal == InitVal /\ [][NextVal]_vars

-----------------------------------------------------------------------------
(* Validation of types that name user types, next to a type table that is  *)
(* being filled by process() calls                                          *)

\* "a", "a ref", "array of a", "int -> a", "a -> int" for the user names
UserTypeTerms ==
    UNION {{User(n, NoPos), Ref(User(n, NoPos)), Array(User(n, NoPos), 1),
            Function(Builtin("int", NoPos), User(n, NoPos)),
            Function(User(n, NoPos), Builtin("int", NoPos))} : n \in UserNames}

\* a call validate(t) on a term written after some type definitions
ValidateUserType ==
    /\ \E t \in UserTypeTerms :
          /\ valT' = t
          /\ valOut' = ValOut(TRUE, validate(t))
    /\ UNCHANGED <<symVars, ttVars, infVars, semVars>>

\* the user types inside valT that the table does not hold
UnregisteredIn(t) ==
    {s \in Subterms(t) : s.cls = "User" /\ ~sd_contains(knownTypes, s)}

\* C11 (as claimed): validate(t) fails with UndefType whenever t contains,
\* at any depth, a User(name) that no earlier process call registered, and
\* succeeds on a User(name) that has been registered.
C11_UndefTypeIffUnregistered ==
    valOut.done =>
        /\ UnregisteredIn(valT) # {} =>
              /\ valOut.err.kind = "UndefType"
              /\ valOut.err.node \in UnregisteredIn(valT)
        /\ (valT.cls = "User" /\ UnregisteredIn(valT) = {}) =>
              valOut.err = NoErr

InitTV ==
    /\ knownTypes = InitKnownTypes
    /\ knownConstructors = InitKnownConstructors
    /\ ncalls = 0
    /\ ttOut = TTOut(NoErr, <<>>, TypeTable(InitKnownTypes, InitKnownConstructors))
    /\ valT = None
    /\ valOut = NotValidated
    /\ scopes = <<>>
    /\ cache = EmptyCache
    /\ snaps = <<>>
    /\ symOut = SymOut("init", None, NoErr, NoSnap, <<>>)
    /\ inf = <<>>
    /\ nodeTypes = <<>>
    /\ infOut = <<>>
    /\ events = <<>>
    /\ semOut = <<>>

NextTV ==
    \/ Process
    \/ ValidateUserType

SpecTV == InitTV /\ [][NextTV]_vars

-----------------------------------------------------------------------------
(* Type inference engine (compiler/infer.py, class Inferer).               *)
(*                                                                         *)
(* A call of a method either returns or lets an exception escape.  The     *)
(* tuple classes EquConstraint, SetConstraint, NotArrayConstraint,         *)
(* NotFuncConstraint, ArrayDimConstraint and UFTuple are attributes of the *)
(* class Inferer (infer.py:263-286); inside the methods they are written   *)
(* as bare names, which are looked up in the module and are not bound      *)
(* there: evaluating one raises NameError.  The containers of an Inferer   *)
(* can therefore only be filled from outside, with Inferer.UFTuple and the *)
(* like; the specifications below start from such Inferers.                *)

\* largest type_id of a PartialType in a type_map
MaxPartials == 2

\* no exception escaped
NoExc == "none"

\* PartialType: equal and hashed by type_id; node is the AST node it is
\* bound to, NoNode where the attribute was never set
NoNode == 0

PartialType(type_id, node) ==
    [cls |-> "Partial", type_id |-> type_id, node |-> node]

\* isinstance(t, PartialType)
IsPartial(t) == t # None /\ t.cls = "Partial"

\* isinstance(t, cls) for the classes of ast.Type
IsInstance(t, cls) == t # None /\ t.cls = cls

\* the tuple classes of Inferer, as a caller outside the class builds them
UFTuple(type, size) == [type |-> type, size |-> size]

EquConstraint(type1, type2) == [type1 |-> type1, type2 |-> type2]

NotFuncConstraint(type1) == [type1 |-> type1]

NotArrayConstraint(type1) == [type1 |-> type1]

\* an exception of infer.py: its class and what it carries
InferError(kind, type1, type2) == [kind |-> kind, type1 |-> type1, type2 |-> type2]

\* what a call did besides returning: the exception that escaped, the
\* errors it logged and the constraints it put at the front of the deque
Effect(raised, errors, front) ==
    [raised |-> raised, errors |-> errors, front |-> front]

NoEffect == Effect(NoExc, <<>>, <<>>)

Raises(exc) == Effect(exc, <<>>, <<>>)

\* a key of the dict type_map: PartialType hashes by type_id, NameNode by
\* name, the other type nodes define __eq__ only and are unhashable
Hashable(t) ==
    t = None \/ t.cls \in {"Partial", "User"} \cup BuiltinClasses

\* self._type_map[t]: the exception the subscription raises, if any
type_map_getitem_raises(type_map, t) ==
    IF ~Hashable(t) THEN "TypeError"
    ELSE IF IsPartial(t) /\ t.type_id \in DOMAIN type_map THEN NoExc
    ELSE "KeyError"

\* PartialType.pos_to_str
partial_pos_to_str_raises(t) ==
    IF t.node = NoNode THEN "AttributeError" ELSE NoExc

\* str(t): PartialType.__str__ adds the integer type_id to '@';
\* Node.__repr__ renders every type node
str_raises(t) == IF IsPartial(t) THEN "TypeError" ELSE NoExc

\* str(err) of an exception that formats type1.pos_to_str() alone
\* (TypeIsArrayError, TypeIsFunctionError), or with str(type1)
\* (AbstractTypeError, ArrayDimensionError, BadSetTypeError) and, where it
\* has one, str(type2)
\* (IncompatibleTypesError, IncompatibleArrayDimError, OccursInError)
str_err_raises(err) ==
    LET p  == IF IsPartial(err.type1) THEN partial_pos_to_str_raises(err.type1)
              ELSE NoExc
        s1 == IF err.kind \in {"TypeIsArray", "TypeIsFunction"} THEN NoExc
              ELSE str_raises(err.type1)
        s2 == IF err.type2 = None THEN NoExc ELSE str_raises(err.type2)
    IN  IF p # NoExc THEN p ELSE IF s1 # NoExc THEN s1 ELSE s2

\* err = ...Error(type1, type2); self.logger.error(str(err))
log_error(err) ==
    IF str_err_raises(err) # NoExc THEN Raises(str_err_raises(err))
    ELSE Effect(NoExc, <<err>>, <<>>)

\* Inferer._link_to: reads both sizes, then builds the new entries with
\* UFTuple in either branch of the weighted union
link_to_raises(type_map, type1, type2) ==
    LET e1 == type_map_getitem_raises(type_map, type1)
        e2 == type_map_getitem_raises(type_map, type2)
    IN  IF e1 # NoExc THEN e1 ELSE IF e2 # NoExc THEN e2 ELSE "NameError"

\* the while loop of Inferer._find: follow the parents from base_type
RECURSIVE find_walk(_, _, _)
find_walk(type_map, base_type, children) ==
    IF ~IsPartial(base_type)
    THEN [base_type |-> base_type, children |-> children, raised |-> NoExc]
    ELSE IF type_map_getitem_raises(type_map, base_type) # NoExc
    THEN [base_type |-> base_type, children |-> children,
          raised |-> type_map_getitem_raises(type_map, base_type)]
    ELSE LET next_type == type_map[base_type.type_id].val.type
         IN  IF next_type = None
             THEN [base_type |-> base_type, children |-> children,
                   raised |-> NoExc]
             ELSE find_walk(type_map, next_type, Append(children, base_type))

\* Inferer._find: the walk, then _link_to(c, base_type) for the children;
\* the first of these calls raises
find(type_map, base_type) ==
    LET w == find_walk(type_map, base_type, <<>>)
    IN  IF w.raised # NoExc THEN [ret |-> None, raised |-> w.raised]
        ELSE IF w.children = <<>> THEN [ret |-> w.base_type, raised |-> NoExc]
        ELSE [ret |-> None,
              raised |-> link_to_raises(type_map, w.children[1], w.base_type)]

\* Inferer._get_free_types
RECURSIVE get_free_types(_)
get_free_types(ttype) ==
    IF IsPartial(ttype) THEN <<ttype>>
    ELSE IF IsInstance(ttype, "Function")
    THEN get_free_types(ttype.fromType) \o get_free_types(ttype.toType)
    ELSE IF IsInstance(ttype, "Ref") \/ IsInstance(ttype, "Array")
    THEN get_free_types(ttype.type)
    ELSE <<>>

\* any(ftype1 == self._find(ft) for ft in free_types2), from the i-th on
RECURSIVE occurs_any(_, _, _, _)
occurs_any(type_map, ftype1, free_types2, i) ==
    IF i > Len(free_types2) THEN [ret |-> FALSE, raised |-> NoExc]
    ELSE LET f == find(type_map, free_types2[i])
         IN  IF f.raised # NoExc THEN [ret |-> FALSE, raised |-> f.raised]
             ELSE IF IsPartial(f.ret) /\ f.ret.type_id = ftype1.type_id
             THEN [ret |-> TRUE, raised |-> NoExc]
             ELSE occurs_any(type_map, ftype1, free_types2, i + 1)

\* Inferer._occurs_in
occurs_in(type_map, type1, type2) ==
    IF ~IsPartial(type1) THEN [ret |-> FALSE, raised |-> "AssertionError"]
    ELSE LET free_types2 == get_free_types(type2)
             ftype1 == find(type_map, type1)
         IN  IF ftype1.raised # NoExc
             THEN [ret |-> FALSE, raised |-> ftype1.raised]
             ELSE occurs_any(type_map, ftype1.ret, free_types2, 1)

\* the first exception the calls self._find(ft) raise over the partials of
\* a term, in the order Inferer._upgrade_to_reps meets them
RECURSIVE first_find_raises(_, _, _)
first_find_raises(type_map, free_types, i) ==
    IF i > Len(free_types) THEN NoExc
    ELSE IF find(type_map, free_types[i]).raised # NoExc
    THEN find(type_map, free_types[i]).raised
    ELSE first_find_raises(type_map, free_types, i + 1)

\* Inferer._upgrade_to_reps: the term with its partials replaced by their
\* representatives
RECURSIVE upgrade_to_reps(_, _)
upgrade_to_reps(type_map, ttype) ==
    IF IsPartial(ttype) THEN find(type_map, ttype).ret
    ELSE IF IsInstance(ttype, "Function")
    THEN Function(upgrade_to_reps(type_map, ttype.fromType),
                  upgrade_to_reps(type_map, ttype.toType))
    ELSE IF IsInstance(ttype, "Ref")
    THEN Ref(upgrade_to_reps(type_map, ttype.type))
    ELSE IF IsInstance(ttype, "Array")
    THEN Array(upgrade_to_reps(type_map, ttype.type), ttype.dimensions)
    ELSE ttype

\* Inferer._unify_partial_partial
unify_partial_partial(type_map, type1, type2) ==
    IF type1.type_id # type2.type_id
    THEN Raises(link_to_raises(type_map, type1, type2))
    ELSE NoEffect

\* Inferer._unify_partial_concrete: the occurs check, then either the
\* OccursInError is built and logged or the entry is built with UFTuple
unify_partial_concrete(type_map, type1, type2) ==
    LET o == occurs_in(type_map, type1, type2)
    IN  IF o.raised # NoExc THEN Raises(o.raised)
        ELSE IF o.ret
        THEN LET f == find(type_map, type1)
                 u == first_find_raises(type_map, get_free_types(type2), 1)
             IN  IF f.raised # NoExc THEN Raises(f.raised)
                 ELSE IF u # NoExc THEN Raises(u)
                 ELSE log_error(InferError("OccursIn", f.ret,
                                           upgrade_to_reps(type_map, type2)))
        ELSE Raises("NameError")

\* Inferer._unify_array
unify_array(type1, type2) ==
    IF type1.dimensions # type2.dimensions
    THEN log_error(InferError("IncompatibleArrayDim", type1, type2))
    ELSE Raises("NameError")

\* Inferer._unify_function
unify_function(type1, type2) == Raises("NameError")

\* Inferer._unify_ref
unify_ref(type1, type2) == Raises("NameError")

\* Inferer._unify_builtin
unify_builtin(type1, type2) ==
    IF type1.name # type2.name
    THEN log_error(InferError("IncompatibleTypes", type1, type2))
    ELSE NoEffect

\* isinstance(type1, type2) with an instance, not a class, as second
\* argument
isinstance_of_instance_raises == "TypeError"

\* Inferer._unify_concrete_concrete: its first test is
\* isinstance(type1, type2) on two type nodes
unify_concrete_concrete(type1, type2) ==
    IF isinstance_of_instance_raises # NoExc
    THEN Raises(isinstance_of_instance_raises)
    ELSE IF IsInstance(type1, "Array") THEN unify_array(type1, type2)
    ELSE IF IsInstance(type1, "Function") THEN unify_function(type1, type2)
    ELSE IF IsInstance(type1, "Ref") THEN unify_ref(type1, type2)
    ELSE unify_builtin(type1, type2)

\* Inferer._unify; two concrete types are handed on as (ftype1, ftype1)
unify(type_map, type1, type2) ==
    LET ftype1 == find(type_map, type1)
        ftype2 == find(type_map, type2)
    IN  IF ftype1.raised # NoExc THEN Raises(ftype1.raised)
        ELSE IF ftype2.raised # NoExc THEN Raises(ftype2.raised)
        ELSE IF IsPartial(ftype1.ret)
        THEN IF IsPartial(ftype2.ret)
             THEN unify_partial_partial(type_map, ftype1.ret, ftype2.ret)
             ELSE unify_partial_concrete(type_map, ftype1.ret, ftype2.ret)
        ELSE IF IsPartial(ftype2.ret)
        THEN unify_partial_concrete(type_map, ftype2.ret, ftype1.ret)
        ELSE unify_concrete_concrete(ftype1.ret, ftype1.ret)

\* Inferer.make_new_type_referencing: PartialType() takes the next id, then
\* the entry for type_map is built with UFTuple
make_new_type_referencing_raises == "NameError"

\* Inferer.get_type_handle
get_type_handle(i, types, node) ==
    IF ~IsPartial(types[node])
    THEN [inf |-> [i EXCEPT !.id_count = @ + 1],
          ret |-> None, raised |-> make_new_type_referencing_raises]
    ELSE [inf |-> i, ret |-> types[node], raised |-> NoExc]

-----------------------------------------------------------------------------
(* Inferers handed to the methods                                          *)

PartialIds == 1..MaxPartials

\* the handle of node n, as get_type_handle is meant to leave it
Handle(n) == PartialType(n, n)

IntType == Builtin("int", NoPos)

BoolType == Builtin("bool", NoPos)

\* concrete types a partial is bound to
BoundTypes ==
    {IntType, Function(IntType, IntType), Array(IntType, 1),
     Ref(Array(IntType, 1))}

\* entries of type_map over the partials D: unbound roots of weight 1 or 2,
\* children of another partial, partials bound to a concrete type
UFTuples(D) ==
    {UFTuple(None, s) : s \in 1..2}
    \cup {UFTuple(Handle(j), 1) : j \in D}
    \cup {UFTuple(c, 1) : c \in BoundTypes}

\* following the parents from partial i ends within k steps
RECURSIVE ChainEnds(_, _, _)
ChainEnds(f, i, k) ==
    \/ ~IsPartial(f[i].type)
    \/ k > 0 /\ ChainEnds(f, f[i].type.type_id, k - 1)

\* the dicts type_map: PartialType -> UFTuple, without cycles
TypeMaps ==
    UNION {{[i \in D |-> [key |-> Handle(i), val |-> f[i]]] :
              f \in {g \in [D -> UFTuples(D)] :
                        \A i \in D : ChainEnds(g, i, MaxPartials)}} :
           D \in SUBSET PartialIds}

\* the type slots of the AST nodes: the handle for a node that has one,
\* no type or a declared type for the others
NodeTypesOf(type_map) ==
    {nt \in [PartialIds -> {None, IntType} \cup {Handle(n) : n \in PartialIds}] :
        \A n \in PartialIds :
            IF n \in DOMAIN type_map THEN nt[n] = Handle(n)
            ELSE ~IsPartial(nt[n])}

\* an Inferer: the fields set by __init__, and PartialType.id_count
Inferer(type_map, constructive, set_c, not_func, not_array, array_dim, type_table, id_count) ==
    [type_map |-> type_map,
     constructive_constraints |-> constructive,
     set_constraints |-> set_c,
     not_func_constraints |-> not_func,
     not_array_constraints |-> not_array,
     array_dimensions_constraints |-> array_dim,
     type_table |-> type_table,
     errors |-> <<>>,
     id_count |-> id_count]

\* types handed to _unify over the partials of a type_map
UnifyTypes(type_map) ==
    {Handle(p) : p \in DOMAIN type_map}
    \cup {IntType, BoolType, Ref(IntType), Function(IntType, IntType)}
    \cup {Array(IntType, d) : d \in Dimensions}
    \cup {Ref(Handle(p)) : p \in DOMAIN type_map}
    \cup {Function(IntType, Handle(p)) : p \in DOMAIN type_map}

\* op: the method called; type1, type2, node: its arguments; ret, raised:
\* what it returned or the exception that escaped; pre: the Inferer before
InfOut(op, type1, type2, node, ret, raised, pre) ==
    [op |-> op, type1 |-> type1, type2 |-> type2, node |-> node,
     ret |-> ret, raised |-> raised, pre |-> pre]

InfIdle == InfOut("none", None, None, NoNode, None, NoExc, <<>>)

\* the Inferer and the type slots of the nodes as a call found them
Before(i, types) ==
    [type_map |-> i.type_map,
     constructive_constraints |-> i.constructive_constraints,
     errors |-> i.errors,
     types |-> types]

\* an Inferer after a call with the given effect
AfterEffect(i, e) ==
    [i EXCEPT !.errors = @ \o e.errors,
              !.constructive_constraints = e.front \o @]

\* a call get_type_handle(node)
GetTypeHandle ==
    /\ infOut = InfIdle
    /\ \E n \in DOMAIN nodeTypes :
          LET r == get_type_handle(inf, nodeTypes, n)
          IN  /\ inf' = r.inf
              /\ infOut' = InfOut("get_type_handle", None, None, n,
                                  r.ret, r.raised, Before(inf, nodeTypes))
    /\ UNCHANGED <<nodeTypes, events, symVars, ttVars, valVars, semVars>>

\* a call _unify(type1, type2)
Unify ==
    /\ infOut = InfIdle
    /\ \E t1 \in UnifyTypes(inf.type_map), t2 \in UnifyTypes(inf.type_map) :
          LET e == unify(inf.type_map, t1, t2)
          IN  /\ inf' = AfterEffect(inf, e)
              /\ infOut' = InfOut("unify", t1, t2, NoNode, None, e.raised,
                                  Before(inf, nodeTypes))
    /\ UNCHANGED <<nodeTypes, events, symVars, ttVars, valVars, semVars>>

\* a call _find(base_type): the first _link_to raises before it assigns
Find ==
    /\ infOut = InfIdle
    /\ \E t \in UnifyTypes(inf.type_map) :
          LET r == find(inf.type_map, t)
          IN  infOut' = InfOut("find", t, None, NoNode, r.ret, r.raised,
                               Before(inf, nodeTypes))
    /\ UNCHANGED <<inf, nodeTypes, events, symVars, ttVars, valVars, semVars>>

\* a call _unify_array(type1, type2)
UnifyArray ==
    /\ infOut = InfIdle
    /\ \E d1 \in Dimensions, d2 \in Dimensions :
          LET t1 == Array(IntType, d1)
              t2 == Array(BoolType, d2)
              e  == unify_array(t1, t2)
          IN  /\ inf' = AfterEffect(inf, e)
              /\ infOut' = InfOut("unify_array", t1, t2, NoNode, None,
                                  e.raised, Before(inf, nodeTypes))
    /\ UNCHANGED <<nodeTypes, events, symVars, ttVars, valVars, semVars>>

-----------------------------------------------------------------------------
(* What the calls of get_type_handle and _unify are to do                  *)

\* where the parents of t end in type_map: an unbound partial or a type
RECURSIVE Representative(_, _)
Representative(type_map, t) ==
    IF ~IsPartial(t) THEN t
    ELSE IF type_map[t.type_id].val.type = None THEN t
    ELSE Representative(type_map, type_map[t.type_id].val.type)

Weight(type_map, p) == type_map[p.type_id].val.size

Logged == SubSeq(inf.errors, Len(infOut.pre.errors) + 1, Len(inf.errors))

Enqueued ==
    SubSeq(inf.constructive_constraints, 1,
           Len(inf.constructive_constraints)
              - Len(infOut.pre.constructive_constraints))

\* C12 (as claimed): get_type_handle(n) always returns a Partial and is
\* idempotent: on a node whose type is not a Partial it creates a fresh
\* Partial, enters it in type_map pointing at the node's previous type and
\* stores it on n.type; on a node whose type is a Partial it returns that
\* Partial and adds no entry to type_map.
C12_HandleIsPartialAndIdempotent ==
    infOut.op = "get_type_handle" =>
        LET n == infOut.node
            before == infOut.pre.type_map
        IN  /\ infOut.raised = NoExc
            /\ IsPartial(infOut.ret)
            /\ nodeTypes[n] = infOut.ret
            /\ IsPartial(infOut.pre.types[n]) =>
                  /\ infOut.ret = infOut.pre.types[n]
                  /\ inf.type_map = before
            /\ ~IsPartial(infOut.pre.types[n]) =>
                  /\ infOut.ret.type_id \notin DOMAIN before
                  /\ DOMAIN inf.type_map = DOMAIN before \cup {infOut.ret.type_id}
                  /\ inf.type_map[infOut.ret.type_id].val.type = infOut.pre.types[n]

\* both arguments of the last _unify are partials whose parents end at
\* unbound partials
UnifiedPartials ==
    /\ infOut.op = "unify"
    /\ IsPartial(infOut.type1) /\ IsPartial(infOut.type2)
    /\ IsPartial(Representative(infOut.pre.type_map, infOut.type1))
    /\ IsPartial(Representative(infOut.pre.type_map, infOut.type2))

\* C13 (as claimed): unifying two partials with different roots links the
\* root of smaller weight under the root of larger weight, the first
\* argument's root under the second's when the weights are equal, and
\* gives the surviving root the sum of both weights; unifying two partials
\* with the same root changes nothing.
C13_WeightedUnion ==
    UnifiedPartials =>
        LET before == infOut.pre.type_map
            r1 == Representative(before, infOut.type1)
            r2 == Representative(before, infOut.type2)
            under == IF Weight(before, r1) <= Weight(before, r2) THEN r1 ELSE r2
            over  == IF Weight(before, r1) <= Weight(before, r2) THEN r2 ELSE r1
        IN  /\ infOut.raised = NoExc
            /\ r1 = r2 => inf.type_map = before
            /\ r1 # r2 =>
                  /\ inf.type_map[under.type_id].val.type = over
                  /\ inf.type_map[over.type_id].val =
                        UFTuple(None, Weight(before, r1) + Weight(before, r2))

\* the last _unify was given an unbound root partial and a concrete term
UnifiedRootWithTerm ==
    /\ infOut.op = "unify"
    /\ IsPartial(infOut.type1) /\ ~IsPartial(infOut.type2)
    /\ Representative(infOut.pre.type_map, infOut.type1) = infOut.type1

\* the partials of type_map whose parents end at p
ClassOf(type_map, p) ==
    {q \in DOMAIN type_map : Representative(type_map, type_map[q].key) = p}

\* C14 (as claimed): unifying an unbound partial root p with a concrete
\* term T logs OccursIn and leaves type_map unchanged when some partial
\* occurring in T has root p; otherwise it logs nothing and binds p to T,
\* so that find of every partial in p's class returns T afterwards.
C14_OccursCheckOrBind ==
    UnifiedRootWithTerm =>
        LET before == infOut.pre.type_map
            p == infOut.type1
            T == infOut.type2
            free == get_free_types(T)
            occurs == \E k \in 1..Len(free) : Representative(before, free[k]) = p
        IN  /\ infOut.raised = NoExc
            /\ occurs =>
                  /\ Len(Logged) = 1 /\ Logged[1].kind = "OccursIn"
                  /\ inf.type_map = before
            /\ ~occurs =>
                  /\ Logged = <<>>
                  /\ \A q \in ClassOf(before, p) :
                        Representative(inf.type_map, before[q].key) = T

\* the last _unify was given two concrete types
UnifiedConcrete ==
    /\ infOut.op = "unify"
    /\ ~IsPartial(infOut.type1) /\ ~IsPartial(infOut.type2)

\* C15 (as claimed): unifying two concrete types whose top-level
\* constructors differ, or two builtins with different names, logs exactly
\* one IncompatibleTypes error and enqueues no sub-equality.
C15_IncompatibleTypesLoggedOnce ==
    (UnifiedConcrete /\ infOut.type1.cls # infOut.type2.cls) =>
        /\ infOut.raised = NoExc
        /\ Len(Logged) = 1
        /\ Logged[1] = InferError("IncompatibleTypes", infOut.type1, infOut.type2)
        /\ Enqueued = <<>>

\* C16 (as claimed): unifying two Array types with different dimension
\* counts logs IncompatibleArrayDim and enqueues nothing; with equal
\* dimension counts it logs nothing and enqueues exactly one equality
\* between the two element types at the front of the deque.
C16_ArrayDimensionsThenElements ==
    (/\ infOut.op \in {"unify", "unify_array"}
     /\ IsInstance(infOut.type1, "Array") /\ IsInstance(infOut.type2, "Array")) =>
        /\ infOut.raised = NoExc
        /\ infOut.type1.dimensions # infOut.type2.dimensions =>
              /\ Len(Logged) = 1 /\ Logged[1].kind = "IncompatibleArrayDim"
              /\ Enqueued = <<>>
        /\ infOut.type1.dimensions = infOut.type2.dimensions =>
              /\ Logged = <<>>
              /\ Enqueued = <<EquConstraint(infOut.type1.type, infOut.type2.type)>>

\* C38 (as claimed): find(p) succeeds whether the parents of p end at an
\* unbound root partial or at a concrete type, returns that end, and
\* changes parent pointers only: every partial of type_map resolves to the
\* same root or concrete type before and after the call and the weight of
\* every root is unchanged.
C38_FindKeepsRootsAndWeights ==
    (infOut.op = "find" /\ IsPartial(infOut.type1)) =>
        LET before == infOut.pre.type_map
        IN  /\ infOut.raised = NoExc
            /\ infOut.ret = Representative(before, infOut.type1)
            /\ DOMAIN inf.type_map = DOMAIN before
            /\ \A q \in DOMAIN before :
                  /\ Representative(inf.type_map, before[q].key) =
                         Representative(before, before[q].key)
                  /\ before[q].val.type = None =>
                         inf.type_map[q].val = before[q].val

\* the weight stored for every unbound root is the number of partials whose
\* parents end at it
WeightsCountClasses(type_map) ==
    \A p \in DOMAIN type_map :
        type_map[p].val.type = None =>
            type_map[p].val.size =
                Cardinality(ClassOf(type_map, type_map[p].key))

InitUnify ==
    /\ \E tm \in TypeMaps :
          /\ inf = Inferer(tm, <<>>, <<>>, <<>>, <<>>, <<>>, "Validator",
                           MaxPartials)
          /\ nodeTypes \in NodeTypesOf(tm)
    /\ infOut = InfIdle
    /\ events = <<>>
    /\ semOut = <<>>
    /\ scopes = <<>>
    /\ cache = EmptyCache
    /\ snaps = <<>>
    /\ symOut = SymOut("init", None, NoErr, NoSnap, <<>>)
    /\ knownTypes = <<>>
    /\ knownConstructors = <<>>
    /\ ncalls = 0
    /\ ttOut = <<>>
    /\ valT = None
    /\ valOut = NotValidated

NextUnify ==
    \/ GetTypeHandle
    \/ Unify
    \/ UnifyArray
    \/ Find

SpecUnify == InitUnify /\ [][NextUnify]_vars

-----------------------------------------------------------------------------
(* Inferer.resolve                                                          *)

\* the tuple classes of the other constraint containers
SetConstraint(type1, good_set) == [type1 |-> type1, good_set |-> good_set]

ArrayDimConstraint(type1, dimension) ==
    [type1 |-> type1, dimension |-> dimension]

\* one step of resolve(): the phase it belongs to, the types it looks at and
\* the constructive constraints waiting in the deque while it is taken
Event(phase, type1, type2, waiting) ==
    [phase |-> phase, type1 |-> type1, type2 |-> type2, waiting |-> waiting]

\* a run of resolve(): the Inferer and the type slots of the nodes so far,
\* the steps taken, the exception that ended the run
RunState(i, types) ==
    [inf |-> i, types |-> types, events |-> <<>>, raised |-> NoExc]

Step(s, phase, type1, type2) ==
    [s EXCEPT !.events = Append(@, Event(phase, type1, type2,
                                         s.inf.constructive_constraints))]

Throw(s, exc) == [s EXCEPT !.raised = exc]

\* err = ...Error(...); self.logger.error(str(err)) within a run
Logs(s, err) ==
    LET e == log_error(err)
    IN  [s EXCEPT !.inf = AfterEffect(@, e), !.raised = e.raised]

\* self._type_map.items(): the keys in the order they were inserted
items(type_map) ==
    SelectSeq([n \in PartialIds |-> n], LAMBDA n : n \in DOMAIN type_map)

\* Inferer._resolve_constructive_constraints
RECURSIVE resolve_constructive_constraints(_)
resolve_constructive_constraints(s) ==
    IF s.raised # NoExc \/ s.inf.constructive_constraints = <<>> THEN s
    ELSE LET c == Head(s.inf.constructive_constraints)
             popped == [s EXCEPT !.inf.constructive_constraints = Tail(@)]
             e == unify(s.inf.type_map, c.type1, c.type2)
             unified == Step(popped, "unify", c.type1, c.type2)
         IN  resolve_constructive_constraints(
                 [unified EXCEPT !.inf = AfterEffect(@, e),
                                 !.raised = e.raised])

\* the loop of Inferer._ensure_concrete_mappings over the remaining keys
RECURSIVE ensure_concrete_mappings_loop(_, _)
ensure_concrete_mappings_loop(s, keys) ==
    IF s.raised # NoExc \/ keys = <<>> THEN s
    ELSE LET t == s.inf.type_map[Head(keys)].key
             mtype == s.inf.type_map[Head(keys)].val.type
             checked == Step(s, "concrete", t, mtype)
         IN  ensure_concrete_mappings_loop(
                 IF mtype = None \/ IsPartial(mtype)
                 THEN Logs(checked, InferError("AbstractType", t, None))
                 ELSE checked,
                 Tail(keys))

\* Inferer._ensure_concrete_mappings
ensure_concrete_mappings(s) ==
    ensure_concrete_mappings_loop(s, items(s.inf.type_map))

\* Inferer._resolve_set_constraints: isinstance(c.type1, c.good_set) on a
\* tuple of type nodes; on the empty tuple it is False
RECURSIVE resolve_set_constraints_loop(_, _)
resolve_set_constraints_loop(s, cs) ==
    IF s.raised # NoExc \/ cs = <<>> THEN s
    ELSE LET c == Head(cs)
             checked == Step(s, "set", c.type1, None)
         IN  resolve_set_constraints_loop(
                 IF c.good_set # <<>>
                 THEN Throw(checked, isinstance_of_instance_raises)
                 ELSE Logs(checked, InferError("BadSetType", c.type1, None)),
                 Tail(cs))

resolve_set_constraints(s) ==
    resolve_set_constraints_loop(s, s.inf.set_constraints)

\* Inferer._resolve_not_func_constraints: the test is on c.type1 itself
RECURSIVE resolve_not_func_constraints_loop(_, _)
resolve_not_func_constraints_loop(s, cs) ==
    IF s.raised # NoExc \/ cs = <<>> THEN s
    ELSE LET c == Head(cs)
             checked == Step(s, "not_func", c.type1, None)
         IN  resolve_not_func_constraints_loop(
                 IF IsInstance(c.type1, "Function")
                 THEN Logs(checked, InferError("TypeIsFunction", c.type1, None))
                 ELSE checked,
                 Tail(cs))

resolve_not_func_constraints(s) ==
    resolve_not_func_constraints_loop(s, s.inf.not_func_constraints)

\* Inferer._resolve_not_array_constraints: the test is on c.type1 itself
RECURSIVE resolve_not_array_constraints_loop(_, _)
resolve_not_array_constraints_loop(s, cs) ==
    IF s.raised # NoExc \/ cs = <<>> THEN s
    ELSE LET c == Head(cs)
             checked == Step(s, "not_array", c.type1, None)
         IN  resolve_not_array_constraints_loop(
                 IF IsInstance(c.type1, "Array")
                 THEN Logs(checked, InferError("TypeIsArray", c.type1, None))
                 ELSE checked,
                 Tail(cs))

resolve_not_array_constraints(s) ==
    resolve_not_array_constraints_loop(s, s.inf.not_array_constraints)

\* the objects handed to Inferer.__init__ as type_table: a type.Validator
\* has validate and is_array, the Logger that sem.py hands over has neither
TypeTables == {"Validator", "Logger"}

getattr_raises(type_table, attr) ==
    IF type_table = "Validator" /\ attr \in {"validate", "is_array"}
    THEN NoExc ELSE "AttributeError"

\* c.size on an ArrayDimConstraint, whose fields are type1 and dimension
array_dim_constraint_size_raises == "AttributeError"

\* Inferer._resolve_array_dimensions_constraints: c.size is read for the
\* comparison when c.type1 is an array, for the error when it is not
RECURSIVE resolve_array_dimensions_constraints_loop(_, _)
resolve_array_dimensions_constraints_loop(s, cs) ==
    IF s.raised # NoExc \/ cs = <<>> THEN s
    ELSE LET c == Head(cs)
             checked == Step(s, "array_dim", c.type1, None)
             a == getattr_raises(s.inf.type_table, "is_array")
         IN  resolve_array_dimensions_constraints_loop(
                 IF a # NoExc THEN Throw(checked, a)
                 ELSE IF is_array(c.type1)
                 THEN Throw(checked, array_dim_constraint_size_raises)
                 ELSE Throw(checked, array_dim_constraint_size_raises),
                 Tail(cs))

resolve_array_dimensions_constraints(s) ==
    resolve_array_dimensions_constraints_loop(
        s, s.inf.array_dimensions_constraints)

\* Inferer._resolve_nonconstructive_constraints
resolve_nonconstructive_constraints(s) ==
    resolve_array_dimensions_constraints(
        resolve_not_array_constraints(
            resolve_not_func_constraints(
                resolve_set_constraints(s))))

\* the try block of Inferer._write_back raises: type_table has no validate,
\* the dispatcher has no entry for the class of mtype, or the type is
\* invalid
validate_raises(type_table, mtype) ==
    IF getattr_raises(type_table, "validate") # NoExc THEN TRUE
    ELSE IF mtype = None \/ IsPartial(mtype) THEN TRUE
    ELSE validate(mtype) # NoErr

\* the except clause names typesem, which infer.py does not import
except_typesem_raises == "NameError"

\* the loop of Inferer._write_back over the remaining keys
RECURSIVE write_back_loop(_, _)
write_back_loop(s, keys) ==
    IF s.raised # NoExc \/ keys = <<>> THEN s
    ELSE LET t == s.inf.type_map[Head(keys)].key
             mtype == s.inf.type_map[Head(keys)].val.type
             written == Step(s, "write_back", t, mtype)
         IN  write_back_loop(
                 IF validate_raises(s.inf.type_table, mtype)
                 THEN Throw(written, except_typesem_raises)
                 ELSE IF t.node # NoNode
                 THEN [written EXCEPT !.types[t.node] = mtype]
                 ELSE written,
                 Tail(keys))

\* Inferer._write_back
write_back(s) == write_back_loop(s, items(s.inf.type_map))

\* mutant: the concreteness check runs before the constructive constraints
resolve_concreteness_first(i, types) ==
    write_back(
        resolve_nonconstructive_constraints(
            resolve_constructive_constraints(
                ensure_concrete_mappings(RunState(i, types)))))

\* Inferer.resolve
resolve(i, types) ==
    write_back(
        resolve_nonconstructive_constraints(
            ensure_concrete_mappings(
                resolve_constructive_constraints(RunState(i, types)))))

\* Inferer.constrain_node_not_being_function: NotFuncConstraint is looked up
\* before get_type_handle is called
constrain_node_not_being_function(i, types, node) ==
    [inf |-> i, raised |-> "NameError"]

-----------------------------------------------------------------------------
(* Inferers handed to resolve()                                            *)

CharType == Builtin("char", NoPos)
FloatType == Builtin("float", NoPos)

\* the dicts type_map whose unbound partials stand alone
ResolveTypeMaps ==
    {tm \in TypeMaps : \A p \in DOMAIN tm : tm[p].val.size = 1}

\* the deques of constructive constraints over the partials of type_map
EquConstraints(type_map) ==
    {EquConstraint(Handle(p), Handle(p)) : p \in DOMAIN type_map}
    \cup {EquConstraint(Handle(p), IntType) : p \in DOMAIN type_map}
    \cup {EquConstraint(Handle(p), Ref(Handle(p))) : p \in DOMAIN type_map}
    \cup {EquConstraint(Ref(IntType), Ref(BoolType)),
          EquConstraint(Function(IntType, IntType),
                        Function(IntType, BoolType)),
          EquConstraint(Array(IntType, 1), Array(BoolType, 1))}

Deques(type_map) ==
    {<<>>}
    \cup {<<c>> : c \in EquConstraints(type_map)}
    \cup {<<c, EquConstraint(IntType, BoolType)>> :
             c \in EquConstraints(type_map)}

\* the handles of type_map in the order of their ids, and in the reverse
HandlesUp(type_map) ==
    [k \in 1..Len(items(type_map)) |-> Handle(items(type_map)[k])]

HandlesDown(type_map) ==
    [k \in 1..Len(items(type_map)) |->
        Handle(items(type_map)[Len(items(type_map)) + 1 - k])]

NotFuncsOf(hs) == [k \in 1..Len(hs) |-> NotFuncConstraint(hs[k])]

NotArraysOf(hs) == [k \in 1..Len(hs) |-> NotArrayConstraint(hs[k])]

\* the other containers: <<set, not-function, not-array, array-dimension>>
Buckets(type_map) ==
    LET up == HandlesUp(type_map)
        down == HandlesDown(type_map)
        sets == [k \in 1..Len(up) |->
                    SetConstraint(up[k], <<CharType, IntType, FloatType>>)]
        dims == [k \in 1..Len(up) |-> ArrayDimConstraint(up[k], 1)]
        nf == NotFuncsOf(up)
        na == NotArraysOf(down)
    IN  {<<<<>>, <<>>, <<>>, <<>>>>,
         <<<<>>, nf, na, <<>>>>,
         <<sets, nf, na, <<>>>>,
         <<<<>>, nf, na, dims>>,
         <<<<>>, NotFuncsOf(down) \o NotFuncsOf(<<Function(IntType, IntType)>>),
           NotArraysOf(up) \o NotArraysOf(<<Array(IntType, 1)>>), <<>>>>}

\* a call resolve()
Resolve ==
    /\ infOut = InfIdle
    /\ LET r == resolve(inf, nodeTypes)
       IN  /\ inf' = r.inf
           /\ nodeTypes' = r.types
           /\ events' = r.events
           /\ infOut' = InfOut("resolve", None, None, NoNode, None, r.raised,
                               Before(inf, nodeTypes))
    /\ UNCHANGED <<symVars, ttVars, valVars, semVars>>

\* a call constrain_node_not_being_function(node)
ConstrainNodeNotBeingFunction ==
    /\ infOut = InfIdle
    /\ \E n \in DOMAIN nodeTypes :
          LET r == constrain_node_not_being_function(inf, nodeTypes, n)
          IN  /\ inf' = r.inf
              /\ infOut' = InfOut("constrain_node_not_being_function", None,
                                  None, n, None, r.raised,
                                  Before(inf, nodeTypes))
    /\ UNCHANGED <<nodeTypes, events, symVars, ttVars, valVars, semVars>>

-----------------------------------------------------------------------------
(* What a call of resolve() is to do                                       *)

Resolved == infOut.op = "resolve"

\* w is what is left of q after some constraints were taken from its front
IsSuffix(w, q) ==
    /\ Len(w) <= Len(q)
    /\ SubSeq(q, Len(q) - Len(w) + 1, Len(q)) = w

\* two concrete types that _unify_array, _unify_function or _unify_ref
\* take apart
Decomposes(type1, type2) ==
    /\ type1 # None /\ type2 # None
    /\ type1.cls = type2.cls
    /\ type1.cls \in {"Array", "Function", "Ref"}
    /\ type1.cls = "Array" => type1.dimensions = type2.dimensions

SubEqualities(type1, type2) ==
    IF type1.cls = "Function"
    THEN {EquConstraint(type1.fromType, type2.fromType),
          EquConstraint(type1.toType, type2.toType)}
    ELSE {EquConstraint(type1.type, type2.type)}

\* C17 (as claimed): when a concrete/concrete unification of Function, Ref
\* or Array types decomposes into sub-equalities, each of them is unified
\* by a later step of the constructive phase, and up to that step every
\* constraint that was waiting in the deque at the decomposition is still
\* waiting.
C17_SubEqualitiesBeforeWaiting ==
    Resolved =>
        \A k \in 1..Len(events) :
            (/\ events[k].phase = "unify"
             /\ Decomposes(events[k].type1, events[k].type2)) =>
                \A c \in SubEqualities(events[k].type1, events[k].type2) :
                    \E j \in (k + 1)..Len(events) :
                        /\ events[j].phase = "unify"
                        /\ events[j].type1 = c.type1
                        /\ events[j].type2 = c.type2
                        /\ \A m \in (k + 1)..j :
                              /\ events[m].phase = "unify"
                              /\ IsSuffix(events[k].waiting, events[m].waiting)

\* the steps of one phase, in the order they were taken
StepsOf(phase) == SelectSeq(events, LAMBDA e : e.phase = phase)

\* the place of a phase in resolve()
PhaseOrder ==
    <<"unify", "concrete", "set", "not_func", "not_array", "array_dim",
      "write_back">>

PhaseRank(phase) == CHOOSE r \in 1..Len(PhaseOrder) : PhaseOrder[r] = phase

\* the steps of a bucket took its constraints from the first on, one each
InInsertionOrder(phase, bucket) ==
    /\ Len(StepsOf(phase)) <= Len(bucket)
    /\ \A k \in 1..Len(StepsOf(phase)) :
          StepsOf(phase)[k].type1 = bucket[k].type1

\* C18: resolve() runs its phases in strict order: every step of the
\* concreteness check, of a non-constructive bucket and of write-back is
\* taken with the constructive deque empty; the steps are in the order
\* unification, concreteness check, set-membership, not-function,
\* not-array, array-dimension, write-back; within a bucket the constraints
\* are checked in insertion order.
C18_PhasesInStrictOrder ==
    Resolved =>
        /\ \A k \in 1..Len(events) :
              events[k].phase # "unify" => events[k].waiting = <<>>
        /\ \A j \in 1..Len(events), k \in 1..Len(events) :
              j < k => PhaseRank(events[j].phase) <= PhaseRank(events[k].phase)
        /\ InInsertionOrder("set", inf.set_constraints)
        /\ InInsertionOrder("not_func", inf.not_func_constraints)
        /\ InInsertionOrder("not_array", inf.not_array_constraints)
        /\ InInsertionOrder("array_dim", inf.array_dimensions_constraints)

\* a run through all phases that checked two not-function and two
\* not-array constraints given in different orders and wrote a type back
C18_Witness ==
    /\ Resolved
    /\ infOut.raised = NoExc
    /\ Len(StepsOf("concrete")) >= 1
    /\ Len(StepsOf("not_func")) >= 2
    /\ Len(StepsOf("not_array")) >= 2
    /\ StepsOf("not_func")[1].type1 # StepsOf("not_array")[1].type1
    /\ Len(StepsOf("write_back")) >= 1
    /\ \E n \in DOMAIN nodeTypes : nodeTypes[n] # infOut.pre.types[n]

\* the run got past the constructive phase
ConcretenessChecked ==
    /\ Resolved
    /\ infOut.raised = NoExc \/ \E k \in 1..Len(events) : events[k].phase # "unify"

\* C19 (as claimed): after constructive unification the concreteness check
\* logs AbstractType for a partial of type_map if and only if following
\* its parents ends at an unbound partial; a partial whose parents end at
\* a concrete type is not reported.
C19_AbstractIffChainEndsUnbound ==
    ConcretenessChecked =>
        \A p \in DOMAIN inf.type_map :
            (\E k \in 1..Len(Logged) :
                /\ Logged[k].kind = "AbstractType"
                /\ Logged[k].type1 = inf.type_map[p].key)
            <=> IsPartial(Representative(inf.type_map, inf.type_map[p].key))

\* the run got past the not-function bucket
NotFuncChecked ==
    /\ Resolved
    /\ \/ infOut.raised = NoExc
       \/ \E k \in 1..Len(events) :
             events[k].phase \in {"not_array", "array_dim", "write_back"}

\* C20 (as claimed): a not-function constraint on a node logs
\* TypeIsFunction if and only if the representative (find) of the node's
\* handle after unification is a Function type.
C20_TypeIsFunctionIffRepresentativeIsFunction ==
    NotFuncChecked =>
        \A k \in 1..Len(inf.not_func_constraints) :
            LET h == inf.not_func_constraints[k].type1
                rep == Representative(inf.type_map, h)
            IN  IsPartial(h) =>
                   ((\E e \in 1..Len(Logged) :
                        /\ Logged[e].kind = "TypeIsFunction"
                        /\ Logged[e].type1 \in {h, rep})
                    <=> IsInstance(rep, "Function"))

\* the errors of a kind that the run logged about type t
LoggedAbout(kind, ts) ==
    \E e \in 1..Len(Logged) :
        Logged[e].kind = kind /\ Logged[e].type1 \in ts

\* C21 (as claimed): a set-membership constraint logs BadSetType if and
\* only if the type its handle resolves to after unification is not equal
\* to any member of the set: with the set {char, int, float} a handle
\* resolved to int is accepted, one resolved to a function or array type is
\* reported.
C21_BadSetTypeIffOutsideSet ==
    Resolved =>
        \A k \in 1..Len(StepsOf("set")) :
            LET c == inf.set_constraints[k]
                rep == Representative(inf.type_map, c.type1)
            IN  LoggedAbout("BadSetType", {c.type1, rep})
                <=> ~(\E g \in 1..Len(c.good_set) : c.good_set[g] = rep)

\* C22 (as claimed): an array-dimension constraint logs ArrayDimension if
\* and only if the type its handle resolves to after unification is not an
\* Array or is an Array with fewer dimensions than the constraint asks for.
C22_ArrayDimensionIffTooFewDimensions ==
    Resolved =>
        \A k \in 1..Len(StepsOf("array_dim")) :
            LET c == inf.array_dimensions_constraints[k]
                rep == Representative(inf.type_map, c.type1)
            IN  LoggedAbout("ArrayDimension", {c.type1, rep})
                <=> ~(IsInstance(rep, "Array")
                        /\ rep.dimensions >= c.dimension)

\* C23 (as claimed): in write-back every partial bound to a concrete type
\* has that type validated through the type table: if validation fails an
\* error is logged and the type slot of the anchored node is left as it
\* was, if it succeeds the slot is set to the concrete type.
C23_WriteBackValidates ==
    (Resolved /\ inf.type_table = "Validator") =>
        \A k \in 1..Len(StepsOf("write_back")) :
            LET t == StepsOf("write_back")[k].type1
                mtype == StepsOf("write_back")[k].type2
            IN  IF validate(mtype) = NoErr
                THEN nodeTypes[t.node] = mtype
                ELSE /\ nodeTypes[t.node] = infOut.pre.types[t.node]
                     /\ Len(Logged) >= 1

\* C24 (as claimed): after resolve() on a constraint set that logs no
\* error, the stored parent of every partial in type_map is a concrete
\* type, neither a partial nor null.
C24_PartialsOneStepFromConcrete ==
    (Resolved /\ Logged = <<>>) =>
        \A p \in DOMAIN inf.type_map :
            /\ inf.type_map[p].val.type # None
            /\ ~IsPartial(inf.type_map[p].val.type)

\* the partials that occur in a type term
PartialsIn(t) ==
    {get_free_types(t)[k] : k \in 1..Len(get_free_types(t))}

\* C25 (as claimed): when no error was logged, the type slot of every node
\* that was given a handle is at the end a concrete type term that contains
\* no partial at any depth.
C25_NoPartialLeftOnNodes ==
    (Resolved /\ Logged = <<>>) =>
        \A p \in DOMAIN inf.type_map :
            /\ nodeTypes[p] # None
            /\ PartialsIn(nodeTypes[p]) = {}

\* unifying type1 with type2 would bind a partial to a term that contains
\* a partial of its own class
WouldCycle(type_map, type1, type2) ==
    /\ IsPartial(type1) /\ ~IsPartial(type2)
    /\ \E q \in PartialsIn(type2) :
          Representative(type_map, q) = Representative(type_map, type1)

\* C26 (as claimed): after constructive unification no binding of a
\* partial contains a partial of its own class, and every constraint that
\* would have created such a cycle is reported as OccursIn.
C26_OccursCheckPreventsCycles ==
    Resolved =>
        /\ \A p \in DOMAIN inf.type_map :
              LET b == inf.type_map[p].val.type
              IN  (b # None /\ ~IsPartial(b)) =>
                      ~WouldCycle(inf.type_map, inf.type_map[p].key, b)
        /\ \A k \in 1..Len(StepsOf("unify")) :
              WouldCycle(infOut.pre.type_map, StepsOf("unify")[k].type1,
                         StepsOf("unify")[k].type2)
                 => LoggedAbout("OccursIn",
                                {StepsOf("unify")[k].type1,
                                 Representative(infOut.pre.type_map,
                                                StepsOf("unify")[k].type1)})

InitResolve ==
    /\ \E tm \in ResolveTypeMaps, tt \in TypeTables :
          \E dq \in Deques(tm), b \in Buckets(tm) :
             /\ inf = Inferer(tm, dq, b[1], b[2], b[3], b[4], tt, MaxPartials)
             /\ nodeTypes = [n \in PartialIds |->
                                IF n \in DOMAIN tm THEN Handle(n) ELSE None]
    /\ infOut = InfIdle
    /\ events = <<>>
    /\ semOut = <<>>
    /\ scopes = <<>>
    /\ cache = EmptyCache
    /\ snaps = <<>>
    /\ symOut = SymOut("init", None, NoErr, NoSnap, <<>>)
    /\ knownTypes = <<>>
    /\ knownConstructors = <<>>
    /\ ncalls = 0
    /\ ttOut = <<>>
    /\ valT = None
    /\ valOut = NotValidated

NextResolve ==
    \/ Resolve
    \/ ConstrainNodeNotBeingFunction

SpecResolve == InitResolve /\ [][NextResolve]_vars

-----------------------------------------------------------------------------
(* The Analyzer (compiler/sem.py)                                          *)

\* the AST nodes of a program of let definitions
GenidExpression(name, pos) ==
    [cls |-> "GenidExpression", name |-> name, pos |-> pos]

ConstExpression(pos) == [cls |-> "ConstExpression", name |-> "", pos |-> pos]

ConstantDef(name, pos, body) ==
    [cls |-> "ConstantDef", name |-> name, pos |-> pos, body |-> body]

FunctionDef(name, pos, arguments, body) ==
    [cls |-> "FunctionDef", name |-> name, pos |-> pos,
     arguments |-> arguments, body |-> body]

Param(name, pos) == [cls |-> "Param", name |-> name, pos |-> pos]

LetDef(definitions, isRec) ==
    [cls |-> "LetDef", definitions |-> definitions, isRec |-> isRec]

LetInExpression(letdef, expr, pos) ==
    [cls |-> "LetInExpression", letdef |-> letdef, expr |-> expr, pos |-> pos]

ConstructorCallExpression(name, arguments, pos) ==
    [cls |-> "ConstructorCallExpression", name |-> name,
     arguments |-> arguments, pos |-> pos]

Pattern(name, arguments, pos) ==
    [cls |-> "Pattern", name |-> name, arguments |-> arguments, pos |-> pos]

GenidPattern(name, pos) == [cls |-> "GenidPattern", name |-> name, pos |-> pos]

Clause(pattern, expr) == [cls |-> "Clause", pattern |-> pattern, expr |-> expr]

\* Analyzer.__init__ builds the dispatchers and then sets _dispatcher,
\* _binop_dispatcher and _unop_dispatcher to None
NoDispatcher == "None"

\* Analyzer.__init__: the dict of the general dispatcher names ast.TypeDef,
\* a class that compiler/ast.py does not define
analyzer_init_raises == "AttributeError"

\* an Analyzer with its fields as the statements of __init__ set them, over
\* a symbol table; errors: what it logged; def_links: the def_link slots it
\* assigned; inferer_calls: the methods of the Inferer it called;
\* dispatched: the nodes whose handler _dispatch has called
Analyzer(tbl) ==
    [symbol_table |-> tbl, dispatcher |-> NoDispatcher, errors |-> <<>>,
     def_links |-> <<>>, inferer_calls |-> <<>>, dispatched |-> <<>>,
     raised |-> NoExc]

\* self.logger.error(str(err))
sem_log(a, err) ==
    IF a.raised # NoExc THEN a ELSE [a EXCEPT !.errors = Append(@, err)]

\* the constrain_* methods of the Inferer name their tuple class before
\* they ask for a type handle; get_type_handle on a node that the parser
\* left without a Partial names UFTuple
inferer_method_raises(method) == "NameError"

\* self.inferer.<method>(...)
inferer_call(a, method) ==
    IF a.raised # NoExc THEN a
    ELSE [a EXCEPT !.inferer_calls = Append(@, method),
                   !.raised = inferer_method_raises(method)]

\* Analyzer._open_visible_scope or _open_invisible_scope
sem_open_scope(a, visible) ==
    IF a.raised # NoExc THEN a
    ELSE [a EXCEPT !.symbol_table =
              IF visible THEN open_visible_scope(@)
              ELSE open_invisible_scope(@)]

\* Analyzer._close_scope
sem_close_scope(a) ==
    IF a.raised # NoExc THEN a
    ELSE [a EXCEPT !.symbol_table = analyzer_close_scope(@)]

\* Analyzer._insert_symbols
RECURSIVE insert_symbols(_, _)
insert_symbols(a, symbols) ==
    IF a.raised # NoExc \/ symbols = <<>> THEN a
    ELSE LET r == analyzer_insert_symbol(a.symbol_table, Head(symbols))
         IN  insert_symbols(
                 [a EXCEPT !.symbol_table = r.tbl,
                           !.errors = IF r.logged = NoErr THEN @
                                      ELSE Append(@, r.logged)],
                 Tail(symbols))

RECURSIVE dispatch(_, _)

\* for node in nodes: self._dispatch(node)
RECURSIVE dispatch_each(_, _)
dispatch_each(a, nodes) ==
    IF a.raised # NoExc \/ nodes = <<>> THEN a
    ELSE dispatch_each(dispatch(a, Head(nodes)), Tail(nodes))

\* Analyzer._analyze_rec_letdef
analyze_rec_letdef(a, letdef) ==
    dispatch_each(
        insert_symbols(sem_open_scope(a, TRUE), letdef.definitions),
        letdef.definitions)

\* Analyzer._analyze_norec_letdef
analyze_norec_letdef(a, letdef) ==
    LET opened == sem_open_scope(a, FALSE)
        new_scope == Len(opened.symbol_table.scopes)
        walked == dispatch_each(opened, letdef.definitions)
    IN  IF walked.raised # NoExc \/ new_scope > Len(walked.symbol_table.scopes)
        THEN walked
        ELSE insert_symbols(
                 [walked EXCEPT !.symbol_table.scopes[new_scope].visible = TRUE],
                 letdef.definitions)

\* Analyzer.analyze_letdef
analyze_letdef(a, letdef) ==
    IF letdef.isRec THEN analyze_rec_letdef(a, letdef)
    ELSE analyze_norec_letdef(a, letdef)

\* Analyzer.analyze_constant_def
analyze_constant_def(a, definition) ==
    dispatch(inferer_call(a, "constrain_nodes_equtyped"), definition.body)

\* Analyzer._abstract_fun_type_from_arguments: a type handle for each
\* argument, from the last to the first
RECURSIVE abstract_fun_type_from_arguments(_, _)
abstract_fun_type_from_arguments(a, arguments) ==
    IF a.raised # NoExc \/ arguments = <<>> THEN a
    ELSE abstract_fun_type_from_arguments(
             inferer_call(a, "get_type_handle"),
             SubSeq(arguments, 1, Len(arguments) - 1))

\* Analyzer.analyze_param
analyze_param(a, param) == a

\* Analyzer.analyze_function_def
analyze_function_def(a, definition) ==
    LET typed == abstract_fun_type_from_arguments(
                     inferer_call(a, "get_type_handle"),
                     definition.arguments)
        constrained == inferer_call(
                           inferer_call(typed, "constrain_node_having_type"),
                           "constrain_node_not_being_function")
        bound == insert_symbols(sem_open_scope(constrained, TRUE),
                                definition.arguments)
    IN  sem_close_scope(
            dispatch(dispatch_each(bound, definition.arguments),
                     definition.body))

\* Analyzer.analyze_const_expression
analyze_const_expression(a, expression) == a

\* Analyzer.analyze_genid_expression
analyze_genid_expression(a, expression) ==
    IF a.raised # NoExc THEN a
    ELSE LET definition == lookup_live_def(a.symbol_table, expression.name)
             linked == [a EXCEPT !.def_links =
                           Append(@, [expr |-> expression,
                                      def_link |-> definition])]
         IN  IF definition = None
             THEN [linked EXCEPT !.errors =
                      Append(@, NodeError("UndefIdentifier", expression, None))]
             ELSE inferer_call(linked, "constrain_nodes_equtyped")

\* Analyzer.analyze_let_in_expression
analyze_let_in_expression(a, expression) ==
    inferer_call(
        sem_close_scope(
            dispatch(dispatch(a, expression.letdef), expression.expr)),
        "constrain_nodes_equtyped")

\* the type table of the Analyzer after "type a = C of int"
ConstructorC == Constructor("C", <<Builtin("int", NoPos)>>, NoPos)

\* typesem.Table.lookup_constructor: the constructor and its type, or None
lookup_constructor(name) ==
    IF name = ConstructorC.name
    THEN [found |-> TRUE, constructor |-> ConstructorC,
          user_type |-> User("a", NoPos)]
    ELSE [found |-> FALSE, constructor |-> None, user_type |-> None]

\* Analyzer._get_constructor_info: the Analyzer after the lookup
get_constructor_info(a, constructor) ==
    IF lookup_constructor(constructor).found THEN a
    ELSE sem_log(a, NodeError("UndefConstructor",
                              [name |-> constructor, pos |-> 0], None))

\* self.inferer.constrain_node_having_type for each pair of the zip
RECURSIVE constrain_each(_, _)
constrain_each(a, n) ==
    IF a.raised # NoExc \/ n = 0 THEN a
    ELSE constrain_each(inferer_call(a, "constrain_node_having_type"), n - 1)

\* Analyzer.analyze_constructor_call_expression
analyze_constructor_call_expression(a, expression) ==
    LET data == lookup_constructor(expression.name)
        looked == get_constructor_info(a, expression.name)
        typed == inferer_call(looked, "constrain_node_having_type")
        checked ==
            IF Len(data.constructor.arguments) # Len(expression.arguments)
            THEN sem_log(typed, NodeError("ArgumentCountMismatch", expression,
                                          data.constructor))
            ELSE constrain_each(typed, Len(expression.arguments))
    IN  IF a.raised # NoExc THEN a
        ELSE IF ~data.found THEN looked
        ELSE dispatch_each(checked, expression.arguments)

\* Analyzer._analyze_simple_pattern
analyze_simple_pattern(a, pattern) ==
    LET data == lookup_constructor(pattern.name)
        looked == get_constructor_info(a, pattern.name)
        linked == [looked EXCEPT !.def_links =
                      Append(@, [expr |-> pattern,
                                 def_link |-> data.constructor])]
    IN  IF ~data.found THEN linked
        ELSE inferer_call(linked, "constrain_node_having_type")

\* the loop of _analyze_complex_pattern: constrain a subpattern, walk it
RECURSIVE constrain_and_dispatch_each(_, _)
constrain_and_dispatch_each(a, subpats) ==
    IF a.raised # NoExc \/ subpats = <<>> THEN a
    ELSE constrain_and_dispatch_each(
             dispatch(inferer_call(a, "constrain_node_having_type"),
                      Head(subpats)),
             Tail(subpats))

\* Analyzer._analyze_complex_pattern
analyze_complex_pattern(a, pattern) ==
    LET data == lookup_constructor(pattern.name)
        typed == analyze_simple_pattern(a, pattern)
    IN  IF ~data.found THEN typed
        ELSE IF Len(pattern.arguments) # Len(data.constructor.arguments)
        THEN sem_log(typed, NodeError("ArgumentCountMismatch", pattern,
                                      data.constructor))
        ELSE constrain_and_dispatch_each(typed, pattern.arguments)

\* Analyzer.analyze_pattern
analyze_pattern(a, pattern) ==
    IF a.raised # NoExc THEN a
    ELSE IF Len(pattern.arguments) # 0 THEN analyze_complex_pattern(a, pattern)
    ELSE analyze_simple_pattern(a, pattern)

\* Analyzer.analyze_genid_pattern
analyze_genid_pattern(a, pattern) == insert_symbols(a, <<pattern>>)

\* Analyzer.analyze_clause
analyze_clause(a, clause) ==
    sem_close_scope(
        dispatch(dispatch(sem_open_scope(a, TRUE), clause.pattern),
                 clause.expr))

\* the handler that the dictionary of _initialize_general_dispatcher holds
\* for the class of node
handler(a, node) ==
    CASE node.cls = "LetDef" -> analyze_letdef(a, node)
      [] node.cls = "ConstantDef" -> analyze_constant_def(a, node)
      [] node.cls = "FunctionDef" -> analyze_function_def(a, node)
      [] node.cls = "Param" -> analyze_param(a, node)
      [] node.cls = "ConstructorCallExpression" ->
             analyze_constructor_call_expression(a, node)
      [] node.cls = "ConstExpression" -> analyze_const_expression(a, node)
      [] node.cls = "GenidExpression" -> analyze_genid_expression(a, node)
      [] node.cls = "LetInExpression" -> analyze_let_in_expression(a, node)
      [] node.cls = "Clause" -> analyze_clause(a, node)
      [] node.cls = "Pattern" -> analyze_pattern(a, node)
      [] node.cls = "GenidPattern" -> analyze_genid_pattern(a, node)

\* Analyzer._dispatch: self._dispatcher[type(node)](node)
dispatch(a, node) ==
    IF a.raised # NoExc THEN a
    ELSE IF a.dispatcher = NoDispatcher THEN Throw(a, "TypeError")
    ELSE handler([a EXCEPT !.dispatched = Append(@, node)], node)

\* Analyzer.analyze_program
analyze_program(a, program) == dispatch_each(a, program)

\* Analyzer.analyze
analyze(a, code_ast) == analyze_program(a, code_ast)

\* the function analyze(program, logger) of the module: it builds the
\* Analyzer first
module_analyze(program) ==
    IF analyzer_init_raises # NoExc
    THEN Throw(Analyzer(SymTable(<<>>, EmptyCache)), analyzer_init_raises)
    ELSE analyze(Analyzer(SymTable(<<>>, EmptyCache)), program)

-----------------------------------------------------------------------------
(* Programs handed to the Analyzer                                         *)

\* number of top-level let definitions of a program
MaxProgram == 2

\* a definition of foo in an enclosing scope
FooOuter == ConstantDef("foo", 2, ConstExpression(9))

\* let foo = foo
FooUsesFoo == ConstantDef("foo", 1, GenidExpression("foo", 4))

\* let bar = foo
BarUsesFoo == ConstantDef("bar", 3, GenidExpression("foo", 5))

\* let foo bar = bar
FooOfBar == FunctionDef("foo", 1, <<Param("bar", 6)>>,
                        GenidExpression("bar", 7))

\* the definitions of a let group, joined by 'and'
Groups ==
    {<<FooUsesFoo>>, <<BarUsesFoo>>, <<BarUsesFoo, FooUsesFoo>>,
     <<FooOfBar, BarUsesFoo>>, <<FooUsesFoo, FooOfBar>>}

LetDefs == {LetDef(g, r) : g \in Groups, r \in BOOLEAN}

Programs == UNION {[1..n -> LetDefs] : n \in 0..MaxProgram}

\* C 1, C, C 1 1 and D: calls of the constructor C of one argument with
\* one, no and two arguments, and of a constructor that no type declares
ConstructorCalls ==
    {ConstructorCallExpression("C", <<ConstExpression(9)>>, 4),
     ConstructorCallExpression("C", <<>>, 4),
     ConstructorCallExpression("C", <<ConstExpression(9), ConstExpression(8)>>,
                               4),
     ConstructorCallExpression("D", <<>>, 4)}

\* the patterns C foo, C, C foo bar, C foo foo and D
Patterns ==
    {Pattern("C", <<GenidPattern("foo", 6)>>, 5),
     Pattern("C", <<>>, 5),
     Pattern("C", <<GenidPattern("foo", 6), GenidPattern("bar", 7)>>, 5),
     Pattern("C", <<GenidPattern("foo", 6), GenidPattern("foo", 7)>>, 5),
     Pattern("D", <<>>, 5)}

\* the clauses pattern -> foo
Clauses == {Clause(p, GenidExpression("foo", 4)) : p \in Patterns}

EmptyTable == SymTable(<<>>, EmptyCache)

\* the symbol tables a handler is called on: a fresh one, one with foo
\* bound in an open scope, one with a further invisible scope opened
SemTables ==
    {EmptyTable,
     insert_symbol(open_visible_scope(EmptyTable), FooOuter).tbl,
     open_invisible_scope(
         insert_symbol(open_visible_scope(EmptyTable), FooOuter).tbl)}

\* op, arg: the function or method called and its argument; raised, errors,
\* def_links, inferer_calls: what the call left in the Analyzer; pre: the
\* symbol table it started from
SemOut(op, arg, a, pre) ==
    [op |-> op, arg |-> arg, raised |-> a.raised, errors |-> a.errors,
     def_links |-> a.def_links, inferer_calls |-> a.inferer_calls,
     dispatched |-> a.dispatched, pre |-> pre]

SemIdle == SemOut("none", None, Analyzer(EmptyTable), EmptyTable)

\* a call analyze(program) of the function of the module
ModuleAnalyze ==
    /\ semOut = SemIdle
    /\ Tbl = EmptyTable
    /\ \E program \in Programs :
          LET r == module_analyze(program)
          IN  /\ scopes' = r.symbol_table.scopes
              /\ cache' = r.symbol_table.cache
              /\ semOut' = SemOut("analyze", program, r, Tbl)
    /\ UNCHANGED <<snaps, symOut, ttVars, valVars, infVars>>

\* a call analyze(program) on an Analyzer
AnalyzerAnalyze ==
    /\ semOut = SemIdle
    /\ Tbl = EmptyTable
    /\ \E program \in Programs :
          LET r == analyze(Analyzer(Tbl), program)
          IN  /\ scopes' = r.symbol_table.scopes
              /\ cache' = r.symbol_table.cache
              /\ semOut' = SemOut("Analyzer.analyze", program, r, Tbl)
    /\ UNCHANGED <<snaps, symOut, ttVars, valVars, infVars>>

\* a call analyze_letdef(letdef) on an Analyzer
AnalyzeLetdef ==
    /\ semOut = SemIdle
    /\ \E letdef \in LetDefs :
          LET r == analyze_letdef(Analyzer(Tbl), letdef)
          IN  /\ scopes' = r.symbol_table.scopes
              /\ cache' = r.symbol_table.cache
              /\ semOut' = SemOut("analyze_letdef", letdef, r, Tbl)
    /\ UNCHANGED <<snaps, symOut, ttVars, valVars, infVars>>

\* a call analyze_genid_expression(expression) on an Analyzer
AnalyzeGenidExpression ==
    /\ semOut = SemIdle
    /\ \E expression \in {FooUsesFoo.body, FooOfBar.body} :
          LET r == analyze_genid_expression(Analyzer(Tbl), expression)
          IN  /\ scopes' = r.symbol_table.scopes
              /\ cache' = r.symbol_table.cache
              /\ semOut' = SemOut("analyze_genid_expression", expression, r,
                                  Tbl)
    /\ UNCHANGED <<snaps, symOut, ttVars, valVars, infVars>>

\* a call analyze_constructor_call_expression(expression) on an Analyzer
AnalyzeConstructorCallExpression ==
    /\ semOut = SemIdle
    /\ \E expression \in ConstructorCalls :
          LET r == analyze_constructor_call_expression(Analyzer(Tbl),
                                                       expression)
          IN  /\ scopes' = r.symbol_table.scopes
              /\ cache' = r.symbol_table.cache
              /\ semOut' = SemOut("analyze_constructor_call_expression",
                                  expression, r, Tbl)
    /\ UNCHANGED <<snaps, symOut, ttVars, valVars, infVars>>

\* a call analyze_pattern(pattern) on an Analyzer
AnalyzePattern ==
    /\ semOut = SemIdle
    /\ \E pattern \in Patterns :
          LET r == analyze_pattern(Analyzer(Tbl), pattern)
          IN  /\ scopes' = r.symbol_table.scopes
              /\ cache' = r.symbol_table.cache
              /\ semOut' = SemOut("analyze_pattern", pattern, r, Tbl)
    /\ UNCHANGED <<snaps, symOut, ttVars, valVars, infVars>>

\* a call analyze_clause(clause) on an Analyzer
AnalyzeClause ==
    /\ semOut = SemIdle
    /\ \E clause \in Clauses :
          LET r == analyze_clause(Analyzer(Tbl), clause)
          IN  /\ scopes' = r.symbol_table.scopes
              /\ cache' = r.symbol_table.cache
              /\ semOut' = SemOut("analyze_clause", clause, r, Tbl)
    /\ UNCHANGED <<snaps, symOut, ttVars, valVars, infVars>>

-----------------------------------------------------------------------------
(* What the Analyzer is to do                                              *)

Analyzed == semOut.op \in {"analyze", "Analyzer.analyze"}

\* C27 (as claimed): analyze(program) performs the walk and then runs the
\* Inferer's resolve(): when analyze returns, the last thing it asked of
\* the Inferer is resolve().
C27_AnalyzeEndsWithResolve ==
    Analyzed =>
        /\ semOut.raised = NoExc
        /\ semOut.inferer_calls # <<>>
        /\ semOut.inferer_calls[Len(semOut.inferer_calls)] = "resolve"

DefsOf(letdef) ==
    {letdef.definitions[k] : k \in 1..Len(letdef.definitions)}

\* the definitions of a group whose body refers to a name that the group
\* binds and that no parameter of the definition shadows
RefersToGroup(letdef) ==
    {d \in DefsOf(letdef) :
        /\ d.body.cls = "GenidExpression"
        /\ \E g \in DefsOf(letdef) : g.name = d.body.name
        /\ d.cls = "FunctionDef" =>
              \A k \in 1..Len(d.arguments) : d.arguments[k].name # d.body.name}

\* the def_link slot of expression was set to definition
Linked(expression, definition) ==
    \E k \in 1..Len(semOut.def_links) :
        /\ semOut.def_links[k].expr = expression
        /\ semOut.def_links[k].def_link = definition

\* C29 (as claimed): while the bodies of a non-recursive let group are
\* walked, a reference to a name bound by the group resolves to the
\* enclosing definition of that name if one is live and is reported as
\* UndefIdentifier otherwise; after the group has been processed the name
\* resolves to the group's definition.
C29_NorecBodiesSeeEnclosingDefinition ==
    (semOut.op = "analyze_letdef" /\ ~semOut.arg.isRec) =>
        /\ semOut.raised = NoExc
        /\ \A d \in RefersToGroup(semOut.arg) :
              LET enclosing == lookup_live_def(semOut.pre, d.body.name)
              IN  /\ Linked(d.body, enclosing)
                  /\ enclosing = None =>
                        \E e \in 1..Len(semOut.errors) :
                            semOut.errors[e] =
                                NodeError("UndefIdentifier", d.body, None)
        /\ \A d \in DefsOf(semOut.arg) :
              lookup_live_def(Tbl, d.name) \in DefsOf(semOut.arg)

\* C30 (as claimed): while the bodies of a recursive let group are walked,
\* a reference to a name bound by the group, a definition that appears
\* later in the group included, resolves to the group's definition of that
\* name unless a parameter shadows it.
C30_RecBodiesSeeGroupDefinitions ==
    (semOut.op = "analyze_letdef" /\ semOut.arg.isRec) =>
        /\ semOut.raised = NoExc
        /\ \A d \in RefersToGroup(semOut.arg) :
              \E g \in DefsOf(semOut.arg) :
                  g.name = d.body.name /\ Linked(d.body, g)

\* C31 (as claimed): a name reference walked by the Analyzer gets def_link
\* set to the live definition of the name together with one equality
\* constraint between the reference and the definition, or, when no live
\* definition exists, gets def_link null, exactly one UndefIdentifier error
\* and no constraint.
C31_ReferenceLinkedAndConstrained ==
    semOut.op = "analyze_genid_expression" =>
        LET definition == lookup_live_def(semOut.pre, semOut.arg.name)
        IN  /\ semOut.raised = NoExc
            /\ semOut.def_links =
                   <<[expr |-> semOut.arg, def_link |-> definition]>>
            /\ definition = None =>
                  /\ semOut.errors =
                         <<NodeError("UndefIdentifier", semOut.arg, None)>>
                  /\ semOut.inferer_calls = <<>>
            /\ definition # None =>
                  /\ semOut.errors = <<>>
                  /\ semOut.inferer_calls = <<"constrain_nodes_equtyped">>

\* the ArgumentCountMismatch errors logged by the call
Mismatches ==
    {e \in 1..Len(semOut.errors) :
        semOut.errors[e].kind = "ArgumentCountMismatch"}

\* C32 (as claimed): a constructor call or constructor pattern whose
\* argument count differs from the formal count of the constructor found
\* logs exactly one ArgumentCountMismatch and emits no constraint on an
\* argument; one analysed without that error has as many arguments as the
\* constructor has formals.
C32_ArityCheckedBeforeArgumentConstraints ==
    (/\ semOut.op \in {"analyze_constructor_call_expression",
                        "analyze_pattern"}
     /\ lookup_constructor(semOut.arg.name).found) =>
        LET formals == lookup_constructor(semOut.arg.name).constructor.arguments
        IN  /\ semOut.raised = NoExc
            /\ Len(semOut.arg.arguments) # Len(formals) =>
                  /\ Cardinality(Mismatches) = 1
                  /\ semOut.inferer_calls = <<"constrain_node_having_type">>
            /\ Mismatches = {} => Len(semOut.arg.arguments) = Len(formals)

\* the nodes of nodes that were dispatched, in the order of their dispatch
RECURSIVE DispatchedAmong(_, _)
DispatchedAmong(dispatched, nodes) ==
    IF dispatched = <<>> THEN <<>>
    ELSE IF \E k \in 1..Len(nodes) : nodes[k] = Head(dispatched)
    THEN <<Head(dispatched)>> \o DispatchedAmong(Tail(dispatched), nodes)
    ELSE DispatchedAmong(Tail(dispatched), nodes)

\* C33 (as claimed): a logged error never stops the walk: analyze(program)
\* dispatches every top-level definition of the program in source order
\* and returns, and a let group whose walk logged an error still has every
\* one of its definitions dispatched in source order.
C33_WalkContinuesAfterErrors ==
    /\ Analyzed =>
          /\ semOut.raised = NoExc
          /\ DispatchedAmong(semOut.dispatched, semOut.arg) = semOut.arg
    /\ (semOut.op = "analyze_letdef" /\ semOut.errors # <<>>) =>
          /\ semOut.raised = NoExc
          /\ DispatchedAmong(semOut.dispatched, semOut.arg.definitions) =
                 semOut.arg.definitions

\* the places of the name patterns of a pattern that bind name
BindersOf(pattern, name) ==
    {k \in 1..Len(pattern.arguments) :
        /\ pattern.arguments[k].cls = "GenidPattern"
        /\ pattern.arguments[k].name = name}

\* C35 (as claimed): the variables bound by the name patterns of a clause
\* are live exactly while the clause's expression is walked: a reference
\* in the expression resolves to the pattern variable, afterwards the name
\* resolves as it did before the clause, a name bound twice in the pattern
\* logs RedefIdentifier, and the scope depth after the clause is the depth
\* before it.
C35_PatternVariablesLiveInClauseOnly ==
    (/\ semOut.op = "analyze_clause"
     /\ lookup_constructor(semOut.arg.pattern.name).found
     /\ Len(semOut.arg.pattern.arguments) =
            Len(lookup_constructor(semOut.arg.pattern.name).constructor.arguments)
            \/ BindersOf(semOut.arg.pattern, semOut.arg.expr.name) = {}) =>
        LET pattern == semOut.arg.pattern
            binders == BindersOf(pattern, semOut.arg.expr.name)
        IN  /\ semOut.raised = NoExc
            /\ Len(scopes) = Len(semOut.pre.scopes)
            /\ \A name \in Names :
                  lookup_live_def(Tbl, name) =
                      lookup_live_def(semOut.pre, name)
            /\ binders # {} =>
                  Linked(semOut.arg.expr,
                         pattern.arguments[CHOOSE k \in binders :
                                              \A j \in binders : k <= j])
            /\ Cardinality(binders) > 1 =>
                  \E e \in 1..Len(semOut.errors) :
                      semOut.errors[e].kind = "RedefIdentifier"

InitSem ==
    /\ \E tbl \in SemTables :
          /\ scopes = tbl.scopes
          /\ cache = tbl.cache
    /\ semOut = SemIdle
    /\ snaps = <<>>
    /\ symOut = SymOut("init", None, NoErr, NoSnap, <<>>)
    /\ knownTypes = <<>>
    /\ knownConstructors = <<>>
    /\ ncalls = 0
    /\ ttOut = <<>>
    /\ valT = None
    /\ valOut = NotValidated
    /\ inf = <<>>
    /\ nodeTypes = <<>>
    /\ infOut = <<>>
    /\ events = <<>>

NextSem ==
    \/ ModuleAnalyze
    \/ AnalyzerAnalyze
    \/ AnalyzeLetdef
    \/ AnalyzeGenidExpression
    \/ AnalyzeConstructorCallExpression
    \/ AnalyzePattern
    \/ AnalyzeClause

SpecSem == InitSem /\ [][NextSem]_vars

-----------------------------------------------------------------------------
(* Specification of the symbol table: a fresh Table, then any sequence of  *)
(* the Analyzer's scope operations.                                        *)

InitSym ==
    /\ scopes = <<>>
    /\ cache = EmptyCache
    /\ snaps = <<>>
    /\ symOut = SymOut("init", None, NoErr, NoSnap, <<>>)
    /\ inf = <<>>
    /\ nodeTypes = <<>>
    /\ infOut = <<>>
    /\ events = <<>>
    /\ semOut = <<>>
    /\ knownTypes = <<>>
    /\ knownConstructors = <<>>
    /\ ncalls = 0
    /\ ttOut = <<>>
    /\ valT = None
    /\ valOut = NotValidated

NextSym ==
    \/ OpenVisibleScope
    \/ OpenInvisibleScope
    \/ CloseScope
    \/ InsertSymbol
    \/ SetVisible

SpecSym == InitSym /\ [][NextSym]_vars

====
